---- MODULE Spec2Model ----
(***************************************************************************)
(* The Xi-RPC endpoint of xrl: one Endpoint future that is at once a       *)
(* client (InnerClient: outbound requests and notifications, their         *)
(* completions) and a server (Server: inbound requests and notifications,  *)
(* the queue of completed handler results), over one Transport.            *)
(*                                                                         *)
(* Endpoint::poll is one scheduling turn.  Its position is `pc`; each loop *)
(* iteration of the turn is one step, because the application threads      *)
(* (Client::request, Client::notify) and the spawned handler tasks run     *)
(* concurrently with the turn and feed the unbounded channels it polls.    *)
(***************************************************************************)
EXTENDS Integers, Sequences, FiniteSets, TLC

\* ---------------------------------------------------------------- bounds
MaxEvents == 2     \* calls of the application and Requests and Notifications
                   \* of the peer in one run
MaxVal == 1        \* distinct JSON payload values
Boundary == 1      \* frames the sink buffers before start_send applies backpressure

Futures == 1..MaxEvents
Acks == 1..MaxEvents
InIds == 1..MaxEvents
Vals == 1..MaxVal
Tags == {"Ok", "Err"}
Methods == {"measure_width", "unknown"}

\* Result<Value, Value>
Results == [tag : Tags, val : Vals]

\* protocol::message::Message.  One record shape for the three variants: a
\* Request carries its id, method and params, a Notification its method and
\* params, a Response its id and result.  The params of an outbound message
\* are identified by h, the number of the future the application got for it;
\* the method of an inbound message is one of Methods.
Request(i, method, f) ==
    [kind |-> "Request", id |-> i, method |-> method, h |-> f, tag |-> "-", val |-> 0]
Notification(method, a) ==
    [kind |-> "Notification", id |-> 0, method |-> method, h |-> a, tag |-> "-", val |-> 0]
Response(i, r) ==
    [kind |-> "Response", id |-> i, method |-> "-", h |-> 0, tag |-> r.tag, val |-> r.val]
NoMessage == [kind |-> "-", id |-> 0, method |-> "-", h |-> 0, tag |-> "-", val |-> 0]
\* stream.poll() = Ready(None): the peer has closed its side of the stream.
StreamClosed == [kind |-> "Closed", id |-> 0, method |-> "-", h |-> 0, tag |-> "-", val |-> 0]

VARIABLES
    status,                 \* of the Endpoint future: "running", "done" (Ok(Ready)),
                            \* "failed" (Err(io::Error)) or one of Panics
    dropped,                \* the Endpoint value has been dropped by the executor
    pc,                     \* position inside Endpoint::poll; "read": between two
                            \* turns, or in the read loop that opens a turn
    shutting_down,          \* InnerClient.shutting_down
    request_id,             \* InnerClient.request_id
    requests_rx,            \* InnerClient.requests_rx: queued (Request, ResponseTx)
    notifications_rx,       \* InnerClient.notifications_rx: queued (Notification, AckTx)
    clientsAlive,           \* some Client handle (a sender of the channels) exists
    pending_requests,       \* InnerClient.pending_requests: id -> ResponseTx
    pending_notifications,  \* InnerClient.pending_notifications: Vec<AckTx>
    respState,              \* what each Response future resolves to
    ackState,               \* what each Ack future resolves to
    buffer,                 \* Transport: frames accepted by the sink, not yet written
    wire,                   \* Transport: frames written to the peer, in order
    handlers,               \* spawned request handlers, by Request id
    notifTasks,             \* spawned notification handlers not yet complete
    pending_responses,      \* Server.pending_responses: completed handler results
    events,                 \* calls of the application and Requests and Notifications
                            \* read so far
    msg,                    \* Endpoint::poll: the message stream.poll() gave last
    taken,                  \* history: results send_responses took from pending_responses
    shutdown_rx,            \* InnerClient.shutdown_rx: shutdown signals queued
    src,                    \* the read buffer of the framed stream (Codec::decode's src)
    written,                \* history: the frames the peer has written, in order
    dispatched,             \* history: the Messages Codec::decode has returned, in order
    decode_res,             \* what the last call of Codec::decode returned
    old_cache,              \* the LineCache contents before the update: before, the
                            \* number of materialized lines, after
    api_cache,              \* the LineCache of api/line_cache.rs
    cache,                  \* the LineCache of cache.rs
    operations,             \* Update.operations of the update notification
    api_pc,                 \* of the view with api_cache: "receiving": the update
                            \* is being received; "updated": update() has returned;
                            \* "panicked"
    cache_pc,               \* the same of the view with cache
    viewport,               \* ViewPort.horizontal_offset of a View
    line_styles,            \* Line.styles of the line the View shows
    rendered                \* the LineRef that View::render_lines yields for it

vars == <<status, dropped, pc, shutting_down, request_id, requests_rx, notifications_rx,
          clientsAlive, pending_requests, pending_notifications, respState, ackState,
          buffer, wire, handlers, notifTasks, pending_responses, events, msg, taken,
          shutdown_rx, src, written, dispatched, decode_res,
          old_cache, api_cache, cache, operations, api_pc, cache_pc,
          viewport, line_styles, rendered>>

clientVars == <<shutting_down, request_id, requests_rx, notifications_rx, pending_requests,
                pending_notifications, respState, ackState>>
serverVars == <<handlers, notifTasks, pending_responses, taken>>
sinkVars == <<buffer, wire>>
inboundVars == <<src, written, dispatched, decode_res>>
viewVars == <<viewport, line_styles, rendered>>
lcVars == <<old_cache, api_cache, cache, operations, api_pc, cache_pc, viewVars>>

\* ------------------------------------------------------------- helpers
Range(s) == {s[k] : k \in 1..Len(s)}
Tail2(s, k) == SubSeq(s, k + 1, Len(s))

\* The outcome of a Response future: not yet created, waiting, resolved with
\* the Result a Response carried, or RpcError::ResponseCanceled.
Unissued == [tag |-> "unissued", val |-> 0]
Waiting == [tag |-> "waiting", val |-> 0]
Canceled == [tag |-> "canceled", val |-> 0]
Resolved(f) == respState[f] \in Results
NoEntries == [i \in {} |-> 0]

\* The panics of the endpoint, by their message.
SinkFull == "panic: The sink is full."
SendError == "panic: An error occured while trying to send message"
UnwrapError == "panic: called unwrap on an Err value"
FlushError == "panic: Failed to flush the sink"
Panics == {SinkFull, SendError, UnwrapError, FlushError}

\* ------------------------------------------------------------ Transport
\* Sink::poll_complete of the framed stream: the I/O accepts the first k
\* buffered frames now (io_error: the write fails).  Ready once the buffer is
\* empty, NotReady while frames remain.
PollComplete(buf, w, k, io_error) ==
    IF io_error
    THEN [res |-> "Err", buffer |-> buf, wire |-> w]
    ELSE LET n == IF k < Len(buf) THEN k ELSE Len(buf) IN
         [res |-> IF n = Len(buf) THEN "Ready" ELSE "NotReady",
          buffer |-> Tail2(buf, n),
          wire |-> w \o SubSeq(buf, 1, n)]

\* Sink::start_send of the framed stream: a buffer at the backpressure
\* boundary is flushed first; if it is still at the boundary the item is
\* handed back (NotReady(item)), otherwise the item is encoded into the buffer.
StartSend(buf, w, m, k, io_error) ==
    IF Len(buf) >= Boundary
    THEN LET f == PollComplete(buf, w, k, io_error) IN
         IF f.res = "Err" THEN f
         ELSE IF Len(f.buffer) >= Boundary
              THEN [res |-> "NotReady", buffer |-> f.buffer, wire |-> f.wire]
              ELSE [res |-> "Ready", buffer |-> Append(f.buffer, m), wire |-> f.wire]
    ELSE [res |-> "Ready", buffer |-> Append(buf, m), wire |-> w]

\* What the I/O under the sink can do when a flush of buf is tried: fail, or
\* accept the first k frames.
Flushes(buf) ==
    {[k |-> 0, io_error |-> TRUE]} \cup {[k |-> n, io_error |-> FALSE] : n \in 0..Len(buf)}
\* The same for start_send, which tries a flush only at the boundary.
SendFlushes(buf) ==
    IF Len(buf) >= Boundary THEN Flushes(buf) ELSE {[k |-> 0, io_error |-> FALSE]}

\* Transport::send: start_send, and a panic unless the sink took the message.
send(buf, w, m, k, io_error) ==
    LET r == StartSend(buf, w, m, k, io_error) IN
    [r EXCEPT !.res = CASE r.res = "Ready" -> "Ready"
                        [] r.res = "NotReady" -> SinkFull
                        [] r.res = "Err" -> SendError]

\* Everything handed to the Transport so far, in order.
Out == wire \o buffer
OutOfKind(kd) == SelectSeq(Out, LAMBDA m : m.kind = kd)

\* ---------------------------------------------------------- InnerClient
\* process_response looking up the oldest pending entry instead of the entry
\* under the Response's id.
process_response_oldest(resp, shutting, pending, rs) ==
    IF shutting \/ DOMAIN pending = {}
    THEN [pending |-> pending, respState |-> rs]
    ELSE LET o == CHOOSE i \in DOMAIN pending : \A j \in DOMAIN pending : i <= j IN
         [pending |-> [i \in DOMAIN pending \ {o} |-> pending[i]],
          respState |-> [rs EXCEPT ![pending[o]] = [tag |-> resp.tag, val |-> resp.val]]]

\* process_response reading the entry (get) where the code removes it.
process_response_get(resp, shutting, pending, rs) ==
    IF shutting
    THEN [pending |-> pending, respState |-> rs]
    ELSE IF resp.id \in DOMAIN pending
         THEN [pending |-> pending,
               respState |-> [rs EXCEPT ![pending[resp.id]] =
                                 [tag |-> resp.tag, val |-> resp.val]]]
         ELSE [pending |-> pending, respState |-> rs]

\* process_response without the check of the shutdown flag.
process_response_late(resp, shutting, pending, rs) ==
    IF resp.id \in DOMAIN pending
    THEN [pending |-> [i \in DOMAIN pending \ {resp.id} |-> pending[i]],
          respState |-> [rs EXCEPT ![pending[resp.id]] =
                            [tag |-> resp.tag, val |-> resp.val]]]
    ELSE [pending |-> pending, respState |-> rs]

\* InnerClient::process_response, as the next (pending_requests, respState).
process_response(resp, shutting, pending, rs) ==
    IF shutting
    THEN [pending |-> pending, respState |-> rs]
    ELSE IF resp.id \in DOMAIN pending
         THEN [pending |-> [i \in DOMAIN pending \ {resp.id} |-> pending[i]],
               respState |-> [rs EXCEPT ![pending[resp.id]] =
                                 [tag |-> resp.tag, val |-> resp.val]]]
         ELSE [pending |-> pending, respState |-> rs]

\* A drain that takes the staged AckTx from the back.
drain_next_back(pn) == Len(pn)

\* InnerClient::acknowledge_notifications: pending_notifications.drain(..)
\* yields the staged AckTx from the front; this is the position of the next.
drain_next(pn) == 1

\* One iteration of the loop of acknowledge_notifications: chan.send(()).
acknowledge(pn, as) ==
    LET n == drain_next(pn) IN
    [pn |-> SubSeq(pn, 1, n - 1) \o SubSeq(pn, n + 1, Len(pn)),
     as |-> [as EXCEPT ![pn[n]] = "acked"]]

\* A flush that acknowledges whatever poll_complete reported.
flush_acknowledges_any(res) == TRUE

\* Endpoint::flush: the result of poll_complete on which it acknowledges.
flush_acknowledges(res) == res = "Ready"

\* A dropped ResponseTx that leaves its future waiting.
cancel_never(outcome) == outcome

\* What dropping a ResponseTx (a oneshot Sender) does to the future: a Response
\* still waiting resolves as RpcError::ResponseCanceled.
cancel(outcome) == IF outcome = Waiting THEN Canceled ELSE outcome

\* process_requests without the increment of request_id.
next_request_id_stale(rid) == rid

\* The id process_requests gives the request it takes from the channel
\* (self.request_id += 1; request.id = self.request_id).
next_request_id(rid) == rid + 1

\* ------------------------------------------------------------- Init
\* api/line_cache.rs LineCache::new() and cache.rs LineCache::default(): no
\* line, no unknown line on either side.
LineCache_new == [n_before |-> 0, lines |-> <<>>, n_after |-> 0]
LineCache_default == [invalid_before |-> 0, lines |-> <<>>, invalid_after |-> 0]

\* No LineRef has been rendered.
NotRendered == [text |-> <<>>, styles |-> <<>>]

\* The ViewPort as ViewPort::default leaves it, over a line without styles.
NoRender ==
    /\ viewport = 0
    /\ line_styles = <<>>
    /\ rendered = NotRendered

\* No update notification arrives: the line caches are as created.
NoUpdate ==
    /\ old_cache = [before |-> 0, k |-> 0, after |-> 0]
    /\ api_cache = LineCache_new
    /\ cache = LineCache_default
    /\ operations = <<>>
    /\ api_pc = "idle" /\ cache_pc = "idle"

\* No view is open.
NoView == NoRender /\ NoUpdate

\* The Endpoint as Endpoint::new leaves it.
EndpointInit ==
    /\ status = "running"
    /\ dropped = FALSE
    /\ pc = "read"
    /\ shutting_down = FALSE
    /\ request_id = 0
    /\ requests_rx = <<>>
    /\ notifications_rx = <<>>
    /\ clientsAlive = TRUE
    /\ pending_requests = NoEntries
    /\ pending_notifications = <<>>
    /\ respState = [f \in Futures |-> Unissued]
    /\ ackState = [a \in Acks |-> "unissued"]
    /\ buffer = <<>>
    /\ wire = <<>>
    /\ handlers = [i \in InIds |-> "none"]
    /\ notifTasks = 0
    /\ pending_responses = <<>>
    /\ events = 0
    /\ msg = NoMessage
    /\ taken = <<>>
    /\ shutdown_rx = 0
    /\ src = <<>>
    /\ written = <<>>
    /\ dispatched = <<>>
    /\ decode_res = "-"

Init == EndpointInit /\ NoView

\* ------------------------------------------------- the application side
\* Client::request: a oneshot pair; (request, tx) goes to the requests
\* channel.  When the receiving end is gone the send fails, tx is dropped and
\* the future resolves as cancelled.
ClientRequest ==
    /\ clientsAlive
    /\ pc = "read"
    /\ events < MaxEvents
    /\ events' = events + 1
    /\ \E f \in Futures :
        /\ respState[f] = Unissued
        /\ \A g \in Futures : g < f => respState[g] # Unissued
        /\ IF dropped
           THEN /\ respState' = [respState EXCEPT ![f] = Canceled]
                /\ UNCHANGED requests_rx
           ELSE /\ respState' = [respState EXCEPT ![f] = Waiting]
                /\ requests_rx' = Append(requests_rx, f)
    /\ UNCHANGED <<lcVars, shutdown_rx, inboundVars,
                   status, dropped, pc, shutting_down, request_id, notifications_rx,
                   clientsAlive, pending_requests, pending_notifications, ackState,
                   buffer, wire, handlers, notifTasks, pending_responses,
                   msg, taken>>

\* Client::notify: the same with the notifications channel and an Ack.
ClientNotify ==
    /\ clientsAlive
    /\ pc = "read"
    /\ events < MaxEvents
    /\ events' = events + 1
    /\ \E a \in Acks :
        /\ ackState[a] = "unissued"
        /\ \A b \in Acks : b < a => ackState[b] # "unissued"
        /\ IF dropped
           THEN /\ ackState' = [ackState EXCEPT ![a] = "canceled"]
                /\ UNCHANGED notifications_rx
           ELSE /\ ackState' = [ackState EXCEPT ![a] = "waiting"]
                /\ notifications_rx' = Append(notifications_rx, a)
    /\ UNCHANGED <<lcVars, shutdown_rx, inboundVars,
                   status, dropped, pc, shutting_down, request_id, requests_rx,
                   clientsAlive, pending_requests, pending_notifications, respState,
                   buffer, wire, handlers, notifTasks, pending_responses,
                   msg, taken>>

\* The last Client handle is dropped: the senders of both channels are gone.
ClientDropAll ==
    /\ clientsAlive
    /\ pc = "read"
    /\ clientsAlive' = FALSE
    /\ UNCHANGED <<lcVars, shutdown_rx, inboundVars,
                   status, dropped, pc, shutting_down, request_id, requests_rx,
                   notifications_rx, pending_requests, pending_notifications, respState,
                   ackState, buffer, wire, handlers, notifTasks, pending_responses,
                   events, msg, taken>>

\* Client::shutdown: () goes to the shutdown channel.  Once the Endpoint (the
\* receiver) is dropped the send fails and the call changes nothing.
ClientShutdown ==
    /\ clientsAlive /\ ~dropped
    /\ pc = "read"
    /\ events < MaxEvents
    /\ events' = events + 1
    /\ shutdown_rx' = shutdown_rx + 1
    /\ UNCHANGED <<lcVars, inboundVars,
                   status, dropped, pc, shutting_down, request_id, requests_rx,
                   notifications_rx, clientsAlive, pending_requests, pending_notifications,
                   respState, ackState, buffer, wire, handlers, notifTasks,
                   pending_responses, msg, taken>>

\* The ids the peer puts on a Response: every id given out so far and one
\* that has not been given out yet (any other such id is handled like it).
RespIds(rid) == 1..(rid + 1)

\* ------------------------------------------------------------- Server
\* Server::process_request: the handler future for (method, params) is spawned
\* as a task of its own; the Request's id travels with it.
process_request(hs, id, method) == [hs EXCEPT ![id] = method]

\* process_notification queueing an error result for the notification, as
\* process_request's handler does for an unknown method.
process_notification_answers(tasks, queue, method) ==
    [tasks |-> tasks + 1, queue |-> Append(queue, [id |-> 0, tag |-> "Err", val |-> 1])]

\* Server::process_notification: the handler future is spawned; nothing of
\* the notification is kept.
process_notification(tasks, queue, method) == [tasks |-> tasks + 1, queue |-> queue]

\* The results a handler for `method` can complete with (frontend.rs):
\* measure_width with the widths, Ok(value); a method the Frontend does not
\* know with future::err("unknown method ..").  (A measure_width whose params
\* do not deserialize is answered in the same way, with future::err.)
HandlerResults(method) ==
    IF method = "measure_width"
    THEN {r \in Results : r.tag = "Ok"}
    ELSE {r \in Results : r.tag = "Err"}

\* A spawned request handler completes: the `then` closure of process_request
\* sends (id, result) to the Server's queue; the send fails once the Endpoint
\* (the receiver) is gone.
HandlerComplete ==
    /\ \E id \in InIds, r \in Results :
        /\ handlers[id] \in Methods
        /\ r \in HandlerResults(handlers[id])
        /\ handlers' = [handlers EXCEPT ![id] = "finished"]
        /\ pending_responses' =
              IF dropped THEN pending_responses
              ELSE Append(pending_responses, [id |-> id, tag |-> r.tag, val |-> r.val])
    /\ UNCHANGED <<lcVars, shutdown_rx, inboundVars,
                   status, dropped, pc, shutting_down, request_id, requests_rx,
                   notifications_rx, clientsAlive, pending_requests, pending_notifications,
                   respState, ackState, buffer, wire, notifTasks, events, msg, taken>>

\* A spawned notification handler completes, with Ok(()) or Err(()): the task
\* ends and nothing is sent anywhere.
NotifHandlerComplete ==
    /\ notifTasks > 0
    /\ \E outcome \in Tags : notifTasks' = notifTasks - 1
    /\ UNCHANGED <<lcVars, shutdown_rx, inboundVars,
                   status, dropped, pc, shutting_down, request_id, requests_rx,
                   notifications_rx, clientsAlive, pending_requests, pending_notifications,
                   respState, ackState, buffer, wire, handlers, pending_responses, events,
                   msg, taken>>

\* ------------------------------------------------------ Endpoint::poll
\* A poll that reports the close of the stream as an error.
on_closed_error == "failed"

\* Endpoint::poll, stream.poll() = Ready(None): `return Ok(Async::Ready(()))`.
on_closed == "done"

\* stream.poll() = Ready(Some(Request)): handle_message -> process_request.
PollStreamRequest ==
    /\ status = "running" /\ pc = "read"
    /\ events < MaxEvents
    /\ \E method \in Methods :
          /\ msg' = Request(events + 1, method, 0)
          /\ handlers' = process_request(handlers, events + 1, method)
    /\ events' = events + 1
    /\ UNCHANGED <<lcVars, shutdown_rx, inboundVars,
                   status, dropped, pc, shutting_down, request_id, requests_rx,
                   notifications_rx, clientsAlive, pending_requests, pending_notifications,
                   respState, ackState, buffer, wire, notifTasks, pending_responses, taken>>

\* stream.poll() = Ready(Some(Notification)): handle_message -> process_notification.
PollStreamNotification ==
    /\ status = "running" /\ pc = "read"
    /\ events < MaxEvents
    /\ \E method \in Methods :
        LET sv == process_notification(notifTasks, pending_responses, method) IN
          /\ msg' = Notification(method, 0)
          /\ notifTasks' = sv.tasks
          /\ pending_responses' = sv.queue
    /\ events' = events + 1
    /\ UNCHANGED <<lcVars, shutdown_rx, inboundVars,
                   status, dropped, pc, shutting_down, request_id, requests_rx,
                   notifications_rx, clientsAlive, pending_requests, pending_notifications,
                   respState, ackState, buffer, wire, handlers, taken>>

\* stream.poll() = Ready(Some(Response)): handle_message -> process_response.
PollStreamResponse ==
    /\ status = "running" /\ pc = "read"
    /\ \E i \in RespIds(request_id), r \in Results :
        LET resp == Response(i, r)
            p == process_response(resp, shutting_down, pending_requests, respState) IN
        /\ pending_requests' = p.pending
        /\ respState' = p.respState
        /\ msg' = resp
    /\ UNCHANGED <<lcVars, shutdown_rx, inboundVars,
                   events, status, dropped, pc, shutting_down, request_id, requests_rx,
                   notifications_rx, clientsAlive, pending_notifications, ackState,
                   buffer, wire, handlers, notifTasks, pending_responses, taken>>

\* stream.poll() = Ready(None): the peer closed the stream; poll returns Ok(Ready).
PollStreamClosed ==
    /\ status = "running" /\ pc = "read"
    /\ status' = on_closed /\ pc' = "read"
    /\ msg' = StreamClosed
    /\ UNCHANGED <<lcVars, shutdown_rx, inboundVars,
                   dropped, shutting_down, request_id, requests_rx,
                   notifications_rx, clientsAlive, pending_requests, pending_notifications,
                   respState, ackState, buffer, wire, handlers, notifTasks,
                   pending_responses, events, taken>>

\* stream.poll() = NotReady: leave the read loop.
PollStreamNotReady ==
    /\ status = "running" /\ pc = "read"
    /\ pc' = "respond"
    /\ msg' = NoMessage
    /\ UNCHANGED <<lcVars, shutdown_rx, inboundVars,
                   status, dropped, shutting_down, request_id, requests_rx,
                   notifications_rx, clientsAlive, pending_requests, pending_notifications,
                   respState, ackState, buffer, wire, handlers, notifTasks,
                   pending_responses, events, taken>>

\* stream.poll() = Err(e): `?` returns the error from poll.
PollStreamError ==
    /\ status = "running" /\ pc = "read"
    /\ status' = "failed" /\ pc' = "read"
    /\ msg' = NoMessage
    /\ UNCHANGED <<lcVars, shutdown_rx, inboundVars,
                   dropped, shutting_down, request_id, requests_rx,
                   notifications_rx, clientsAlive, pending_requests, pending_notifications,
                   respState, ackState, buffer, wire, handlers, notifTasks,
                   pending_responses, events, taken>>

\* Server::send_responses, one iteration with a result in the queue: the
\* result becomes a Response and goes to sink.start_send(msg).unwrap().  The
\* unwrap panics on Err only: an Ok(NotReady(msg)) passes and msg is let go.
SendResponsesTake ==
    /\ status = "running" /\ pc = "respond"
    /\ pending_responses # <<>>
    /\ \E io \in SendFlushes(buffer) :
        LET res == Head(pending_responses)
            response == Response(res.id, [tag |-> res.tag, val |-> res.val])
            r == StartSend(buffer, wire, response, io.k, io.io_error) IN
        /\ pending_responses' = Tail(pending_responses)
        /\ taken' = Append(taken, res)
        /\ buffer' = r.buffer
        /\ wire' = r.wire
        /\ IF r.res = "Err"
           THEN status' = UnwrapError /\ pc' = "read"
           ELSE UNCHANGED <<status, pc>>
    /\ UNCHANGED <<lcVars, shutdown_rx, inboundVars,
                   dropped, shutting_down, request_id, requests_rx, notifications_rx,
                   clientsAlive, pending_requests, pending_notifications, respState,
                   ackState, handlers, notifTasks, events, msg>>

\* Server::send_responses, the queue is empty: return sink.poll_complete().
\* Endpoint::poll returns NotReady on NotReady and the error on Err.
SendResponsesFlush ==
    /\ status = "running" /\ pc = "respond"
    /\ pending_responses = <<>>
    /\ \E io \in Flushes(buffer) :
        LET r == PollComplete(buffer, wire, io.k, io.io_error) IN
        /\ buffer' = r.buffer
        /\ wire' = r.wire
        /\ CASE r.res = "Ready" -> pc' = "requests" /\ UNCHANGED status
             [] r.res = "NotReady" -> pc' = "read" /\ UNCHANGED status
             [] r.res = "Err" -> pc' = "read" /\ status' = "failed"
    /\ UNCHANGED <<lcVars, shutdown_rx, inboundVars,
                   dropped, shutting_down, request_id, requests_rx, notifications_rx,
                   clientsAlive, pending_requests, pending_notifications, respState,
                   ackState, handlers, notifTasks, pending_responses, events,
                   msg, taken>>

\* HashMap::insert on pending_requests: an entry already under the id is
\* replaced, and the replaced ResponseTx is dropped.
insert(pending, rs, id, f) ==
    [pending |-> [i \in DOMAIN pending \cup {id} |-> IF i = id THEN f ELSE pending[i]],
     respState |-> IF id \in DOMAIN pending
                   THEN [rs EXCEPT ![pending[id]] = cancel(rs[pending[id]])]
                   ELSE rs]

\* InnerClient::process_requests, requests_rx.poll() = Ready(Some(..)): the
\* request gets the next id, goes to Transport::send and its ResponseTx into
\* pending_requests.  A panic in send unwinds past the insert and drops the
\* ResponseTx.
ProcessRequestsSend ==
    /\ status = "running" /\ pc = "requests"
    /\ requests_rx # <<>>
    /\ \E io \in SendFlushes(buffer) :
        LET f == Head(requests_rx)
            id == next_request_id(request_id)
            r == send(buffer, wire, Request(id, "-", f), io.k, io.io_error)
            p == insert(pending_requests, respState, id, f) IN
        /\ request_id' = id
        /\ requests_rx' = Tail(requests_rx)
        /\ buffer' = r.buffer
        /\ wire' = r.wire
        /\ IF r.res = "Ready"
           THEN /\ pending_requests' = p.pending
                /\ respState' = p.respState
                /\ UNCHANGED <<status, pc>>
           ELSE /\ respState' = [respState EXCEPT ![f] = cancel(respState[f])]
                /\ status' = r.res /\ pc' = "read"
                /\ UNCHANGED pending_requests
    /\ UNCHANGED <<lcVars, shutdown_rx, inboundVars,
                   dropped, shutting_down, notifications_rx, clientsAlive,
                   pending_notifications, ackState, handlers, notifTasks,
                   pending_responses, events, msg, taken>>

\* requests_rx.poll() = Ready(None): every sender is gone; shutdown() and break.
ProcessRequestsClosed ==
    /\ status = "running" /\ pc = "requests"
    /\ requests_rx = <<>> /\ ~clientsAlive
    /\ shutting_down' = TRUE
    /\ pc' = "notifs"
    /\ UNCHANGED <<lcVars, shutdown_rx, inboundVars,
                   status, dropped, request_id, requests_rx, notifications_rx,
                   clientsAlive, pending_requests, pending_notifications, respState,
                   ackState, buffer, wire, handlers, notifTasks, pending_responses,
                   events, msg, taken>>

\* requests_rx.poll() = NotReady: break.
ProcessRequestsNotReady ==
    /\ status = "running" /\ pc = "requests"
    /\ requests_rx = <<>> /\ clientsAlive
    /\ pc' = "notifs"
    /\ UNCHANGED <<lcVars, shutdown_rx, inboundVars,
                   status, dropped, shutting_down, request_id, requests_rx,
                   notifications_rx, clientsAlive, pending_requests, pending_notifications,
                   respState, ackState, buffer, wire, handlers, notifTasks,
                   pending_responses, events, msg, taken>>

\* InnerClient::process_notifications, notifications_rx.poll() =
\* Ready(Some(..)): Transport::send, then the AckTx is staged.
ProcessNotificationsSend ==
    /\ status = "running" /\ pc = "notifs"
    /\ notifications_rx # <<>>
    /\ \E io \in SendFlushes(buffer) :
        LET a == Head(notifications_rx)
            r == send(buffer, wire, Notification("-", a), io.k, io.io_error) IN
        /\ notifications_rx' = Tail(notifications_rx)
        /\ buffer' = r.buffer
        /\ wire' = r.wire
        /\ IF r.res = "Ready"
           THEN /\ pending_notifications' = Append(pending_notifications, a)
                /\ UNCHANGED <<status, pc, ackState>>
           ELSE /\ ackState' = [ackState EXCEPT ![a] = "canceled"]
                /\ status' = r.res /\ pc' = "read"
                /\ UNCHANGED pending_notifications
    /\ UNCHANGED <<lcVars, shutdown_rx, inboundVars,
                   dropped, shutting_down, request_id, requests_rx, clientsAlive,
                   pending_requests, respState, handlers, notifTasks,
                   pending_responses, events, msg, taken>>

\* notifications_rx.poll() = Ready(None): shutdown() and break.
ProcessNotificationsClosed ==
    /\ status = "running" /\ pc = "notifs"
    /\ notifications_rx = <<>> /\ ~clientsAlive
    /\ shutting_down' = TRUE
    /\ pc' = "flush"
    /\ UNCHANGED <<lcVars, shutdown_rx, inboundVars,
                   status, dropped, request_id, requests_rx, notifications_rx,
                   clientsAlive, pending_requests, pending_notifications, respState,
                   ackState, buffer, wire, handlers, notifTasks, pending_responses,
                   events, msg, taken>>

\* notifications_rx.poll() = NotReady: break.
ProcessNotificationsNotReady ==
    /\ status = "running" /\ pc = "notifs"
    /\ notifications_rx = <<>> /\ clientsAlive
    /\ pc' = "flush"
    /\ UNCHANGED <<lcVars, shutdown_rx, inboundVars,
                   status, dropped, shutting_down, request_id, requests_rx,
                   notifications_rx, clientsAlive, pending_requests, pending_notifications,
                   respState, ackState, buffer, wire, handlers, notifTasks,
                   pending_responses, events, msg, taken>>

\* Endpoint::flush: poll_complete; Ready goes on to acknowledge the staged
\* acks, NotReady returns, Err panics.  With nothing to acknowledge the turn
\* ends here: Ok(Ready) if the client is shutting down, Ok(NotReady) otherwise.
Flush ==
    /\ status = "running" /\ pc = "flush"
    /\ \E io \in Flushes(buffer) :
        LET r == PollComplete(buffer, wire, io.k, io.io_error) IN
        /\ buffer' = r.buffer
        /\ wire' = r.wire
        /\ CASE r.res = "Err" ->
                  status' = FlushError /\ pc' = "read"
             [] r.res # "Err" /\ flush_acknowledges(r.res) /\ pending_notifications # <<>> ->
                  pc' = "ack" /\ UNCHANGED status
             [] OTHER ->
                  pc' = "read" /\ status' = IF shutting_down THEN "done" ELSE "running"
    /\ UNCHANGED <<lcVars, shutdown_rx, inboundVars,
                   dropped, shutting_down, request_id, requests_rx, notifications_rx,
                   clientsAlive, pending_requests, pending_notifications, respState,
                   ackState, handlers, notifTasks, pending_responses, events, msg, taken>>

\* InnerClient::acknowledge_notifications, one iteration of the drain; after
\* the last one the turn ends as above.
AcknowledgeNotification ==
    /\ status = "running" /\ pc = "ack"
    /\ LET r == acknowledge(pending_notifications, ackState) IN
        /\ pending_notifications' = r.pn
        /\ ackState' = r.as
        /\ IF r.pn = <<>>
           THEN pc' = "read" /\ status' = IF shutting_down THEN "done" ELSE "running"
           ELSE UNCHANGED <<pc, status>>
    /\ UNCHANGED <<lcVars, shutdown_rx, inboundVars,
                   dropped, shutting_down, request_id, requests_rx, notifications_rx,
                   clientsAlive, pending_requests, respState, buffer, wire, handlers,
                   notifTasks, pending_responses, events, msg, taken>>

\* The Endpoint future has completed (or panicked) and the executor drops it:
\* the receivers of the channels, pending_requests and pending_notifications go
\* with it, so every ResponseTx and AckTx still held is dropped and its future
\* resolves as cancelled.
EndpointDrop ==
    /\ status # "running" /\ ~dropped
    /\ dropped' = TRUE
    /\ respState' = [f \in Futures |-> cancel(respState[f])]
    /\ ackState' = [a \in Acks |-> IF ackState[a] = "waiting" THEN "canceled"
                                   ELSE ackState[a]]
    /\ requests_rx' = <<>>
    /\ notifications_rx' = <<>>
    /\ pending_requests' = NoEntries
    /\ pending_notifications' = <<>>
    /\ pending_responses' = <<>>
    /\ UNCHANGED <<lcVars, shutdown_rx, inboundVars,
                   status, pc, shutting_down, request_id, clientsAlive, buffer, wire,
                   handlers, notifTasks, events, msg, taken>>

Next ==
    \/ ClientRequest
    \/ ClientNotify
    \/ ClientDropAll
    \/ ClientShutdown
    \/ HandlerComplete
    \/ NotifHandlerComplete
    \/ PollStreamRequest
    \/ PollStreamNotification
    \/ PollStreamResponse
    \/ PollStreamClosed
    \/ PollStreamNotReady
    \/ PollStreamError
    \/ SendResponsesTake
    \/ SendResponsesFlush
    \/ ProcessRequestsSend
    \/ ProcessRequestsClosed
    \/ ProcessRequestsNotReady
    \/ ProcessNotificationsSend
    \/ ProcessNotificationsClosed
    \/ ProcessNotificationsNotReady
    \/ Flush
    \/ AcknowledgeNotification
    \/ EndpointDrop

Spec == Init /\ [][Next]_vars

\* The executor (tokio::spawn) drops a future as soon as it has completed.
FairSpec == Spec /\ WF_vars(EndpointDrop)

\* The steps of a scheduling turn after its read loop.
EndpointTurn ==
    \/ SendResponsesTake
    \/ SendResponsesFlush
    \/ ProcessRequestsSend
    \/ ProcessRequestsClosed
    \/ ProcessRequestsNotReady
    \/ ProcessNotificationsSend
    \/ ProcessNotificationsClosed
    \/ ProcessNotificationsNotReady
    \/ Flush
    \/ AcknowledgeNotification

\* The Endpoint keeps being scheduled: the read loop of a turn comes to its
\* NotReady, a turn that has left the read loop runs on to its return, and a
\* completed Endpoint is dropped.
ScheduledSpec ==
    Spec /\ WF_vars(PollStreamNotReady) /\ WF_vars(EndpointTurn) /\ WF_vars(EndpointDrop)

\* ==================================================================
\* The InnerClient that endpoint.rs defines for itself
\* ==================================================================
\* endpoint.rs holds its own InnerClient, the one Endpoint::new in that file
\* constructs.  Its process_requests differs from the one of client.rs in the
\* arm for a closed channel: requests_rx.poll() = Ready(None) calls shutdown()
\* and, there being no `break`, polls the channel again, which is still closed.
ProcessRequestsClosedLoop ==
    /\ status = "running" /\ pc = "requests"
    /\ requests_rx = <<>> /\ ~clientsAlive
    /\ shutting_down' = TRUE
    /\ pc' = "requests"
    /\ UNCHANGED <<lcVars, shutdown_rx, inboundVars,
                   status, dropped, request_id, requests_rx, notifications_rx,
                   clientsAlive, pending_requests, pending_notifications, respState,
                   ackState, buffer, wire, handlers, notifTasks, pending_responses,
                   events, msg, taken>>

\* The Endpoint with that InnerClient.  Its Client has no shutdown(); its
\* process_notifications has the same arm without `break`, which no turn
\* reaches: the Client handles close both channels together and
\* process_requests, which comes first, does not return.
EndpointRsNext ==
    \/ ClientRequest
    \/ ClientNotify
    \/ ClientDropAll
    \/ HandlerComplete
    \/ NotifHandlerComplete
    \/ PollStreamRequest
    \/ PollStreamNotification
    \/ PollStreamResponse
    \/ PollStreamClosed
    \/ PollStreamNotReady
    \/ PollStreamError
    \/ SendResponsesTake
    \/ SendResponsesFlush
    \/ ProcessRequestsSend
    \/ ProcessRequestsClosedLoop
    \/ ProcessRequestsNotReady
    \/ ProcessNotificationsSend
    \/ ProcessNotificationsNotReady
    \/ Flush
    \/ AcknowledgeNotification
    \/ EndpointDrop

EndpointRsSpec == Init /\ [][EndpointRsNext]_vars

\* ==================================================================
\* The inbound path: bytes of the peer -> Codec::decode -> handle_message
\* ==================================================================
\* serde_json::Value, as far as the protocol looks into it: the payloads
\* 1..MaxVal, and the objects {"Ok": v} and {"Err": v} that serde writes for a
\* Result (Variant).
Variant(tag, v) == IF tag = "Ok" THEN v + MaxVal ELSE v + 2 * MaxVal
JsonVals == 1..(3 * MaxVal)

\* A key that a JSON object does not have.
NoKey == 0 - 1
NoMethod == "(absent)"

\* The text of one frame in the read buffer: a JSON object, by the keys the
\* protocol reads ("id", "method", "params", "result", "error"), or text that
\* is not JSON from any of its bytes on (such as `}}`).
Json(id, method, params, result, error) ==
    [text |-> "json", id |-> id, method |-> method, params |-> params,
     result |-> result, error |-> error]
Garbage ==
    [text |-> "garbage", id |-> NoKey, method |-> NoMethod, params |-> NoKey,
     result |-> NoKey, error |-> NoKey]

\* Message::to_vec: serde_json::to_vec of the derived Serialize of the variant.
\* Request and Notification are written with their fields as keys; Response is
\* written as {"id": id, "result": <Result<Value, Value>>}, and serde writes a
\* Result as {"Ok": v} or {"Err": v}.
to_vec(m) ==
    CASE m.kind = "Request" -> Json(m.id, m.method, m.h, NoKey, NoKey)
      [] m.kind = "Notification" -> Json(NoKey, m.method, m.h, NoKey, NoKey)
      [] m.kind = "Response" -> Json(m.id, NoMethod, NoKey, Variant(m.tag, m.val), NoKey)

\* message.rs get_message_type.
get_message_type(value) ==
    IF value.method # NoMethod /\ value.params # NoKey
    THEN IF value.id # NoKey THEN "Request" ELSE "Notification"
    ELSE IF (value.result # NoKey \/ value.error # NoKey) /\ value.id # NoKey
         THEN "Response"
         ELSE "Invalid"

\* Request::decode, Notification::decode, Response::decode.  A Response with
\* the key "result" is Ok(value["result"]), otherwise with the key "error" it
\* is Err(value["error"]).
Request_decode(value) == Request(value.id, value.method, value.params)
Notification_decode(value) == Notification(value.method, value.params)
Response_decode(value) ==
    IF value.result # NoKey
    THEN Response(value.id, [tag |-> "Ok", val |-> value.result])
    ELSE Response(value.id, [tag |-> "Err", val |-> value.error])

\* A newline between two values in the read buffer: JSON whitespace.
Newline ==
    [text |-> "newline", id |-> NoKey, method |-> NoMethod, params |-> NoKey,
     result |-> NoKey, error |-> NoKey]

\* The first position from pos on that does not hold whitespace.
RECURSIVE SkipWhitespace(_, _)
SkipWhitespace(buf, pos) ==
    IF pos <= Len(buf) /\ buf[pos] = Newline THEN SkipWhitespace(buf, pos + 1) ELSE pos

\* serde_json::from_reader on the cursor at position pos of the buffer.  It
\* skips whitespace, reads one value (at), skips whitespace and then requires
\* the input to end: at the end of the buffer it fails with Category::Eof; on
\* a value followed by more input it fails with Category::Syntax (trailing
\* characters) having read into the frame that follows, whose remaining bytes
\* are no JSON value any more and are used up by the next turns of the loop of
\* Codec::decode; text that is not JSON fails with Category::Syntax.
from_reader(buf, pos) ==
    LET at == SkipWhitespace(buf, pos)
        end == SkipWhitespace(buf, at + 1) IN
    IF at > Len(buf) THEN [res |-> "Eof", at |-> at, pos |-> at]
    ELSE IF buf[at].text = "garbage" THEN [res |-> "Syntax", at |-> at, pos |-> at + 1]
    ELSE IF end > Len(buf) THEN [res |-> "Ok", at |-> at, pos |-> end]
    ELSE [res |-> "Syntax", at |-> at, pos |-> end + 1]

\* Message::decode: from_reader, From<SerdeError> for DecodeError (Eof is
\* Truncated, Syntax is InvalidJson), then the decode of the variant.
Message_decode(buf, pos) ==
    LET r == from_reader(buf, pos) IN
    CASE r.res = "Eof" -> [res |-> "Truncated", msg |-> NoMessage, pos |-> r.pos]
      [] r.res = "Syntax" -> [res |-> "InvalidJson", msg |-> NoMessage, pos |-> r.pos]
      [] r.res = "Ok" ->
           LET value == buf[r.at]
               type == get_message_type(value) IN
           CASE type = "Request" ->
                    [res |-> "Ok", msg |-> Request_decode(value), pos |-> r.pos]
             [] type = "Notification" ->
                    [res |-> "Ok", msg |-> Notification_decode(value), pos |-> r.pos]
             [] type = "Response" ->
                    [res |-> "Ok", msg |-> Response_decode(value), pos |-> r.pos]
             [] type = "Invalid" ->
                    [res |-> "InvalidMessage", msg |-> NoMessage, pos |-> r.pos]

\* The loop of Codec::decode from cursor position pos: a Message ends it with
\* Some(message) and the buffer is cut at the cursor (src.split_to(position));
\* Truncated returns None at once, before the cut, so the buffer stays as it
\* was; InvalidJson and InvalidMessage go round the loop (`continue`) with the
\* cursor where the failed read left it.  DecodeError::Io cannot come from a
\* Cursor over the buffer.
RECURSIVE decode_loop(_, _)
decode_loop(buf, pos) ==
    LET r == Message_decode(buf, pos) IN
    CASE r.res = "Ok" -> [res |-> "Some", msg |-> r.msg, src |-> Tail2(buf, r.pos - 1)]
      [] r.res = "Truncated" -> [res |-> "None", msg |-> NoMessage, src |-> buf]
      [] OTHER -> decode_loop(buf, r.pos)

\* Codec::decode(src).
decode(buf) == decode_loop(buf, 1)

\* The frames a peer writes.  A peer that is an Endpoint of this library
\* writes Codec::encode = Message::to_vec of its Responses, Requests and
\* Notifications; a peer that follows the wire format writes a Response as
\* {"id", "result"} or {"id", "error"}; a faulty peer writes a JSON value that
\* is no message ({}), or text that is not JSON.
PeerResponses == {Response(i, r) : i \in 1..MaxEvents, r \in Results}
PeerMessages ==
    PeerResponses \cup {Request(1, m, 1) : m \in Methods}
                  \cup {Notification(m, 1) : m \in Methods}
EncodedFrames == {to_vec(m) : m \in PeerMessages}
WireFrames ==
    {Json(i, NoMethod, NoKey, v, NoKey) : i \in 1..MaxEvents, v \in Vals}
        \cup {Json(i, NoMethod, NoKey, NoKey, v) : i \in 1..MaxEvents, v \in Vals}
NoMessageJson == Json(NoKey, NoMethod, NoKey, NoKey, NoKey)
PeerFrames == EncodedFrames \cup WireFrames \cup {NoMessageJson, Garbage}

\* An Endpoint in the middle of its life, between two turns: the requests
\* 1..MaxEvents-1 have been sent and are pending; the shutdown flag is in
\* either state.
InboundInit ==
    /\ status = "running" /\ dropped = FALSE /\ pc = "read"
    /\ shutting_down \in BOOLEAN
    /\ request_id = MaxEvents - 1
    /\ requests_rx = <<>> /\ notifications_rx = <<>>
    /\ clientsAlive = TRUE
    /\ pending_requests = [i \in 1..(MaxEvents - 1) |-> i]
    /\ pending_notifications = <<>>
    /\ respState = [f \in Futures |-> IF f < MaxEvents THEN Waiting ELSE Unissued]
    /\ ackState = [a \in Acks |-> "unissued"]
    /\ buffer = <<>>
    /\ wire = [i \in 1..(MaxEvents - 1) |-> Request(i, "-", i)]
    /\ handlers = [i \in InIds |-> "none"]
    /\ notifTasks = 0
    /\ pending_responses = <<>>
    /\ events = 0
    /\ msg = NoMessage
    /\ taken = <<>>
    /\ shutdown_rx = 0
    /\ src = <<>> /\ written = <<>> /\ dispatched = <<>>
    /\ decode_res = "-"
    /\ NoView

\* The peer writes one frame and the framed stream reads it into its buffer.
PeerWrite ==
    /\ status = "running"
    /\ events < MaxEvents
    /\ events' = events + 1
    /\ \E frame \in PeerFrames :
        /\ src' = Append(src, frame)
        /\ written' = Append(written, frame)
    /\ decode_res' = "-"
    /\ UNCHANGED <<lcVars, shutdown_rx,
                   status, dropped, pc, shutting_down, request_id, requests_rx,
                   notifications_rx, clientsAlive, pending_requests, pending_notifications,
                   respState, ackState, buffer, wire, handlers, notifTasks,
                   pending_responses, msg, taken, dispatched>>

\* stream.poll() of the framed stream with bytes to look at (new bytes, or a
\* frame was returned last time): Codec::decode(src), and for Some(msg)
\* Endpoint::handle_message(msg).
FramedPoll ==
    /\ status = "running" /\ pc = "read"
    /\ decode_res \in {"-", "Some"}
    /\ LET d == decode(src) IN
        /\ src' = d.src
        /\ decode_res' = d.res
        /\ msg' = d.msg
        /\ dispatched' = IF d.res = "Some" THEN Append(dispatched, d.msg) ELSE dispatched
        /\ IF d.msg.kind = "Response"
           THEN LET p == process_response(d.msg, shutting_down, pending_requests, respState) IN
                pending_requests' = p.pending /\ respState' = p.respState
           ELSE UNCHANGED <<pending_requests, respState>>
        /\ IF d.msg.kind = "Request"
           THEN handlers' = process_request(handlers, d.msg.id, d.msg.method)
           ELSE UNCHANGED handlers
        /\ IF d.msg.kind = "Notification"
           THEN notifTasks' =
                   process_notification(notifTasks, pending_responses, d.msg.method).tasks
           ELSE UNCHANGED notifTasks
    /\ UNCHANGED <<lcVars, shutdown_rx, written,
                   status, dropped, pc, shutting_down, request_id, requests_rx,
                   notifications_rx, clientsAlive, pending_notifications,
                   ackState, buffer, wire, pending_responses, events, taken>>

InboundNext == PeerWrite \/ FramedPoll

InboundSpec == InboundInit /\ [][InboundNext]_vars

\* crate::client::Client::request: what the caller of the high-level client
\* gets from a resolved protocol::Response future: Ok(Ok(value)) is Ok(value),
\* Ok(Err(value)) is ClientError::ErrorReturned(value), a cancelled future is
\* ClientError::RequestFailed.
request_outcome(rs) ==
    CASE rs.tag = "Ok" -> [tag |-> "Ok", val |-> rs.val]
      [] rs.tag = "Err" -> [tag |-> "ErrorReturned", val |-> rs.val]
      [] rs.tag = "canceled" -> [tag |-> "RequestFailed", val |-> 0]
      [] OTHER -> rs

\* ==================================================================
\* Properties
\* ==================================================================
\* The ids under which the request of future f has been handed to the Transport.
IdsOf(f) == {Out[k].id : k \in {n \in 1..Len(Out) : Out[n].kind = "Request" /\ Out[n].h = f}}
ResultOf(m) == [tag |-> m.tag, val |-> m.val]

\* C1: whatever the order in which Responses arrive, a step that resolves a
\* request's future with a result is the handling of a Response that carries
\* the id this request was sent with, and the future gets exactly the result of
\* that Response: Ok(v) as Ok(v), Err(v) as Err(v).
C1_OwnResult ==
    [][\A f \in Futures :
          (respState'[f] \in Results /\ respState'[f] # respState[f]) =>
              /\ respState[f] = Waiting
              /\ msg'.kind = "Response"
              /\ msg'.id \in IdsOf(f)
              /\ respState'[f] = ResultOf(msg')]_vars

\* C1 witness: the second request is answered (with Err) while the first,
\* issued before it, is still pending.
C1_OutOfOrder ==
    /\ respState[2] = [tag |-> "Err", val |-> 1]
    /\ respState[1] = Waiting
    /\ 1 \in DOMAIN pending_requests

\* C2: the pending request table holds id i exactly when a Request with id i
\* has been handed to the Transport and its future is unresolved, and the entry
\* is that future's; a resolved future never changes again, so a Response for
\* an id already resolved resolves nothing.
C2_TableAgrees ==
    \A i \in 1..MaxEvents :
        /\ i \in DOMAIN pending_requests <=>
              \E f \in Futures : i \in IdsOf(f) /\ respState[f] = Waiting
        /\ i \in DOMAIN pending_requests =>
              i \in IdsOf(pending_requests[i]) /\ respState[pending_requests[i]] = Waiting
C2_ResolvedOnce ==
    \A f \in Futures :
        respState[f] \notin {Unissued, Waiting} => respState'[f] = respState[f]
C2_PendingExactlyUnresolved == []C2_TableAgrees /\ [][C2_ResolvedOnce]_vars

\* C2 witness: a second Response for id 1 has just been handled, carrying
\* another result than the one that resolved the request, and the request keeps
\* the first result.
C2_SecondResponseIgnored ==
    /\ msg.kind = "Response" /\ msg.id = 1
    /\ respState[1] \in Results
    /\ respState[1] # ResultOf(msg)
    /\ 1 \notin DOMAIN pending_requests

\* C3: the Requests handed to the Transport carry, in the order they were
\* taken from the channel, the ids 1, 2, 3, ...: never 0, never one id twice,
\* so no id is given out again while its entry is pending.
C3_IdsCountUp ==
    /\ \A k \in 1..Len(OutOfKind("Request")) : OutOfKind("Request")[k].id = k
    /\ \A i \in DOMAIN pending_requests : 1 <= i /\ i <= request_id

\* C3 witness: two requests have been sent and both are pending.
C3_TwoSent ==
    /\ Len(OutOfKind("Request")) = 2
    /\ DOMAIN pending_requests = {1, 2}

\* What the environment has done so far.
RequestsIssued == Cardinality({f \in Futures : respState[f] # Unissued})
NotifiesIssued == Cardinality({a \in Acks : ackState[a] # "unissued"})
RequestsReceived == Cardinality({i \in InIds : handlers[i] # "none"})
NotificationsReceived ==
    events - RequestsIssued - NotifiesIssued - RequestsReceived - shutdown_rx
ResponseOf(res) == Response(res.id, [tag |-> res.tag, val |-> res.val])
Copies(m) == Cardinality({j \in 1..Len(Out) : Out[j] = m})

\* C4: a Request whose handler has completed and whose result has left the
\* queue of completed results is answered by exactly one Response, which
\* carries the Request's id and the handler's result, Ok as Ok and Err as Err.
C4_AnsweredExactlyOnce ==
    \A id \in InIds :
        (/\ status = "running"
         /\ handlers[id] = "finished"
         /\ \A q \in 1..Len(pending_responses) : pending_responses[q].id # id)
        => \E k \in 1..Len(taken) :
              /\ taken[k].id = id
              /\ Copies(ResponseOf(taken[k])) = 1
              /\ Len(SelectSeq(Out, LAMBDA m : m.kind = "Response" /\ m.id = id)) = 1

\* C5: the Responses handed to the Transport are never more than the Requests
\* received: no Notification, of whatever method and with whatever outcome of
\* its handler, is answered.
C5_NoResponseToNotification == Len(OutOfKind("Response")) <= RequestsReceived

\* C5 witness: the only frame received is a Notification, its handler has
\* completed, the turn that read it has ended and nothing was sent.
C5_NotificationHandled ==
    /\ NotificationsReceived = 1 /\ RequestsReceived = 0
    /\ notifTasks = 0
    /\ msg = NoMessage /\ pc = "read" /\ status = "running"
    /\ Out = <<>>

\* C6: the Ack of a notification is acknowledged only when the Acks of all
\* notifications submitted before it have been.
C6_AcksInSubmissionOrder ==
    \A a, b \in Acks : (a < b /\ ackState[b] = "acked") => ackState[a] = "acked"

\* C6 witness: in the middle of the drain the first of two staged acks is
\* acknowledged and the second still waits.
C6_MidDrain ==
    /\ pc = "ack"
    /\ ackState[1] = "acked" /\ ackState[2] = "waiting"
    /\ pending_notifications = <<2>>

\* C7: an Ack is acknowledged only when its Notification has been written out
\* by a flush that completed; an unresolved Ack whose Notification was handed
\* to the Transport stays staged; a flush that reports not-ready changes no
\* Ack; a flush that completes goes on to acknowledge every staged Ack.
C7_AckedWasFlushed ==
    \A a \in Acks : ackState[a] = "acked" => Copies(Notification("-", a)) = 1
                                             /\ \E j \in 1..Len(wire) : wire[j] = Notification("-", a)
C7_StagedNotLost ==
    \A a \in Acks :
        (ackState[a] = "waiting" /\ Copies(Notification("-", a)) > 0)
        => \E j \in 1..Len(pending_notifications) : pending_notifications[j] = a
C7_FlushStep ==
    /\ (pc = "flush" /\ pc' # "flush" /\ buffer' # <<>>) =>
          /\ UNCHANGED <<ackState, pending_notifications>>
          /\ pc' # "ack"
    /\ (pc = "flush" /\ pc' # "flush" /\ buffer' = <<>> /\ status' \notin Panics
          /\ pending_notifications # <<>>) => pc' = "ack"
    /\ (pc = "ack" /\ pc' # "ack") =>
          /\ pending_notifications' = <<>>
          /\ \A a \in Acks : ackState[a] = "waiting" /\ Copies(Notification("-", a)) > 0
                              => ackState'[a] = "acked"
C7_AckAfterCompletedFlush ==
    [](C7_AckedWasFlushed /\ C7_StagedNotLost) /\ [][C7_FlushStep]_vars

\* C7 witness: the first notification was acknowledged by a flush that
\* completed; the second was handed to the Transport afterwards, the flush of
\* its turn reported not-ready, and its Ack is staged and unresolved.
C7_StagedAfterNotReady ==
    /\ ackState[1] = "acked"
    /\ ackState[2] = "waiting" /\ pending_notifications = <<2>>
    /\ buffer # <<>>
    /\ pc = "read" /\ status = "running" /\ msg = NoMessage

\* C8: send_responses drops no result: while the Endpoint runs, every result
\* it took from the queue of completed results is a Response handed to the
\* Transport.
C8_NoResultDropped ==
    status = "running" => Len(OutOfKind("Response")) = Len(taken)

\* C9: handing a Request or a Notification to a Transport whose sink is full
\* never panics.
C9_FullSinkNoPanic == status # SinkFull

\* C10: once the Endpoint future has completed no request resolves with a
\* result any more; once the Endpoint is dropped no Response and no Ack is left
\* waiting, also not one issued afterwards; and a completed Endpoint leads to
\* every Response and Ack being resolved.
C10_NoLateResult ==
    status # "running" =>
        \A f \in Futures : respState'[f] \in Results => respState'[f] = respState[f]
C10_NothingWaiting ==
    /\ \A f \in Futures : respState[f] # Waiting
    /\ \A a \in Acks : ackState[a] # "waiting"
C11_ShutdownCompletes == (shutdown_rx > 0) ~> (status # "running")

\* C13: when the stream reports that the peer has closed its side, the
\* Endpoint future completes with success, and it does so in the turn that
\* observed the close: the turn has returned, nothing else of it has run.
C13_CloseCompletes == msg = StreamClosed => status = "done" /\ pc = "read"

\* C13 witness: the close was observed while a completed handler result and a
\* submitted request were still queued; the future has completed with success.
C13_ClosedWithWorkQueued ==
    /\ msg = StreamClosed /\ status = "done" /\ ~dropped
    /\ pending_responses # <<>>
    /\ requests_rx # <<>>

\* C14: an I/O error of the Transport, in whatever phase of a turn, ends the
\* Endpoint future with that error: it never ends in a panic on the error.
C14_IoErrorPropagates == status \notin {SendError, UnwrapError, FlushError}

\* C15: the handling of a Response whose id has no entry in the pending
\* request table resolves no completion, leaves the table and the request id
\* counter as they are, and the Endpoint keeps running.
C15_UnknownIdDiscarded ==
    [][(PollStreamResponse /\ msg'.id \notin DOMAIN pending_requests) =>
          /\ UNCHANGED <<respState, pending_requests, request_id>>
          /\ status' = "running" /\ pc' = "read"]_vars

\* C15 witness: request 1 is pending and a Response with the id 2, which has
\* not been given out, has just been handled.
C15_UnknownIdSeen ==
    /\ msg.kind = "Response" /\ msg.id = 2
    /\ request_id = 1 /\ DOMAIN pending_requests = {1}
    /\ respState[1] = Waiting /\ status = "running"

\* C19: a Request with a method the Service does not know (its handler is
\* the one that completes with Err), once its result has left the queue of
\* completed results, is answered by a Response with its id and an Err result.
C19_UnknownMethodAnswered ==
    \A k \in 1..Len(taken) :
        (status = "running" /\ taken[k].tag = "Err")
        => \E n \in 1..Len(Out) :
              Out[n].kind = "Response" /\ Out[n].id = taken[k].id /\ Out[n].tag = "Err"

\* C12: with the shutdown flag set, the handling of a Response resolves no
\* completion, also not the one pending under its id, leaves the pending
\* request table as it is, and the Endpoint does not panic.
C12_LateResponseDiscarded ==
    [][shutting_down =>
          /\ UNCHANGED <<pending_requests, respState>>
          /\ status' = "running"]_vars

\* C12 witness: the flag is set, a Response for the pending id 1 has just been
\* handled, and request 1 is still pending and unresolved.
C12_PendingIdIgnored ==
    /\ shutting_down
    /\ msg.kind = "Response" /\ msg.id = 1
    /\ 1 \in DOMAIN pending_requests /\ respState[1] = Waiting

\* A frame that, alone in the buffer, decodes to a Message.
WellFormed(frame) == decode(<<frame>>).res = "Some"
DispatchedCopies(m) == Cardinality({n \in 1..Len(dispatched) : dispatched[n] = m})

\* C16: a malformed frame does not end the connection, and once the framed
\* stream has looked at everything it has read, every well-formed frame the
\* peer wrote after a malformed one has been decoded and dispatched.
C16_WellFormedAfterMalformed ==
    /\ status = "running"
    /\ decode_res = "None" =>
          \A k \in 1..Len(written) :
              (WellFormed(written[k]) /\ \E j \in 1..(k - 1) : ~WellFormed(written[j]))
              => DispatchedCopies(decode(<<written[k]>>).msg) >= 1

\* C17: a call of Codec::decode that meets a malformed line at the front of
\* the buffer returns an error to its caller.
C17_MalformedSurfaces ==
    [][(decode_res' # "-" /\ src # <<>> /\ ~WellFormed(src[1])) => decode_res' = "Err"]_vars

\* C18: when the peer is an Endpoint of this library and its handler answered
\* request f with the error value v, the caller of Client::request gets
\* ErrorReturned(v) once the request is resolved: never Ok, never a failure of
\* the request.
C18_ErrorReachesClient ==
    \A f \in Futures, v \in Vals :
        (/\ respState[f] \notin {Unissued, Waiting}
         /\ \E k \in 1..Len(written) : written[k].id = f
         /\ \A k \in 1..Len(written) :
               written[k].id = f => written[k] = to_vec(Response(f, [tag |-> "Err", val |-> v])))
        => request_outcome(respState[f]) = [tag |-> "ErrorReturned", val |-> v]

\* C20: with every Client handle dropped, the turn that finds the requests
\* channel closed sets the shutdown flag and leaves the loop of
\* process_requests, so that the turn can end and the future complete.
C20_ClosedChannelsEndTurn ==
    (status = "running" /\ shutting_down) => pc # "requests"

\* ==================================================================
\* LineCache: the update of a view's window from Update.operations
\* ==================================================================
MaxBefore == 1     \* unknown lines on either side of the window before the update
MaxLines == 2      \* materialized lines of the window before the update
MaxOps == 2        \* Operations of one update
MaxN == 2          \* n of one Operation

Min(a, b) == IF a < b THEN a ELSE b

\* Option<u64>::None of a line number.
NoLn == 0 - 1

\* protocol/line.rs Line.  text is the text without its trailing newlines, by
\* number (0 is the empty string), nl the number of newlines that end it;
\* cursor stands for the cursor and styles.
Line(text, nl, line_num, cursor) ==
    [text |-> text, nl |-> nl, line_num |-> line_num, cursor |-> cursor]

\* Option<Line>::None, an entry of api LineCache.lines without a line.
None == [text |-> 0 - 1, nl |-> 0, line_num |-> NoLn, cursor |-> 0]
Nones(k) == [i \in 1..k |-> None]

\* The materialized lines L1..Lk of the window before the update, and the
\* lines a peer supplies with Insert: the empty line, and a line of text that
\* ends in one newline or in two.  Every logical line of the window is wrapped into two
\* lines, of which the first has the line number.
L(i) == Line(i, 0, IF i % 2 = 0 THEN NoLn ELSE (i + 1) \div 2, 0)
InsertLines ==
    {Line(0, 0, NoLn, 0), Line(MaxLines + 1, 1, NoLn, 0), Line(MaxLines + 1, 2, NoLn, 0)}

\* protocol/operation.rs Operation.
Operation(op, n, line_num, lines) ==
    [op |-> op, n |-> n, line_num |-> line_num, lines |-> lines]
Copy(n, line_num) == Operation("copy", n, line_num, <<>>)
Skip(n) == Operation("skip", n, NoLn, <<>>)
Invalidate(n) == Operation("invalidate", n, NoLn, <<>>)
Insert(lines) == Operation("ins", Len(lines), NoLn, lines)
Update(lines) == Operation("update", Len(lines), NoLn, lines)

\* --------------------------------------------- api/line_cache.rs
LineCache_height(self) == self.n_before + Len(self.lines) + self.n_after

\* LineCache::get_line(n): Some(line), or None.
LineCache_get_line(self, n) ==
    IF n < self.n_before \/ n > self.n_before + Len(self.lines)
    THEN None
    ELSE LET ix == n - self.n_before IN
         IF ix < Len(self.lines) THEN self.lines[ix + 1] ELSE None

\* LineCache::is_empty.
LineCache_is_empty(self) ==
    /\ LineCache_height(self) = 1
    /\ LineCache_get_line(self, 0) # None
    /\ LineCache_get_line(self, 0).text = 0 /\ LineCache_get_line(self, 0).nl = 0

\* Invalidate that counts the unknown lines after the window whether or not
\* the window has a line.
update_invalidate_after(st, n) ==
    [st EXCEPT !.new_invalid_after = @ + n]

\* LineCache::update, one turn of `for op in update.operations`.  st holds the
\* locals new_invalid_before, new_lines, new_invalid_after and old_ix, and
\* whether the turn has panicked: the one place that can is the slice
\* &self.lines[start_ix..start_ix + n_copy] of Copy.
update_invalidate(st, n) ==
    IF st.new_lines = <<>>
    THEN [st EXCEPT !.new_invalid_before = @ + n]
    ELSE [st EXCEPT !.new_invalid_after = @ + n]

update_insert(st, lines) ==
    [st EXCEPT !.new_lines = (@ \o Nones(st.new_invalid_after)) \o lines,
               !.new_invalid_after = 0]

update_copy(self, st, n) ==
    LET len == Len(self.lines)
        lines0 == st.new_lines \o Nones(st.new_invalid_after)
        invalid == IF st.old_ix < self.n_before
                   THEN Min(n, self.n_before - st.old_ix) ELSE 0
        before1 == IF lines0 = <<>> THEN st.new_invalid_before + invalid
                   ELSE st.new_invalid_before
        after1 == IF lines0 = <<>> THEN 0 ELSE invalid
        ix1 == st.old_ix + invalid
        remaining1 == n - invalid
        n_copy == IF remaining1 > 0 /\ ix1 < self.n_before + len
                  THEN Min(remaining1, self.n_before + len - ix1) ELSE 0
        start_ix == ix1 - self.n_before
        lines1 == IF n_copy > 0
                  THEN lines0 \o SubSeq(self.lines, start_ix + 1, start_ix + n_copy)
                  ELSE lines0
        remaining2 == remaining1 - n_copy IN
    IF n_copy > 0 /\ start_ix + n_copy > len
    THEN [st EXCEPT !.panicked = TRUE]
    ELSE [new_invalid_before |-> IF lines1 = <<>> THEN before1 + remaining2 ELSE before1,
          new_lines |-> lines1,
          new_invalid_after |-> IF lines1 = <<>> THEN after1 ELSE after1 + remaining2,
          old_ix |-> ix1 + n_copy + remaining2,
          panicked |-> FALSE]

update_skip(st, n) == [st EXCEPT !.old_ix = @ + n]

\* `_ => {}`: OperationType::Update.
update_op(self, st, op) ==
    CASE op.op = "invalidate" -> update_invalidate(st, op.n)
      [] op.op = "ins" -> update_insert(st, op.lines)
      [] op.op = "copy" -> update_copy(self, st, op.n)
      [] op.op = "skip" -> update_skip(st, op.n)
      [] OTHER -> st

RECURSIVE update_loop(_, _, _)
update_loop(self, st, ops) ==
    IF ops = <<>> \/ st.panicked THEN st
    ELSE update_loop(self, update_op(self, st, Head(ops)), Tail(ops))

\* LineCache::update(update): the loop over the operations, then the three
\* assignments to self.
LineCache_update(self, ops) ==
    LET st == update_loop(self, [new_invalid_before |-> 0, new_lines |-> <<>>,
                                 new_invalid_after |-> 0, old_ix |-> 0,
                                 panicked |-> FALSE], ops) IN
    IF st.panicked
    THEN [panicked |-> TRUE, cache |-> self]
    ELSE [panicked |-> FALSE,
          cache |-> [n_before |-> st.new_invalid_before, lines |-> st.new_lines,
                     n_after |-> st.new_invalid_after]]

\* --------------------------------------------------------- cache.rs
\* HashMap<u64, Line>: a function from its keys.
NoLines == <<>>
remove(map, keys) == [k \in (DOMAIN map) \ keys |-> map[k]]
extend(map, entries) ==
    [k \in (DOMAIN map) \cup (DOMAIN entries) |->
        IF k \in DOMAIN entries THEN entries[k] ELSE map[k]]
len(map) == Cardinality(DOMAIN map)
SetMax(S) == CHOOSE x \in S : \A y \in S : y <= x
SetMin(S) == CHOOSE x \in S : \A y \in S : x <= y

\* The keys 0..count-1 in order, up to the first that old_lines does not
\* have: remove_entry(&i).unwrap() panics there, after the entries before it
\* have been taken out of old_lines.
Missing(map, count) == {i \in 0..(count - 1) : i \notin DOMAIN map}
Taken(map, count) ==
    IF Missing(map, count) = {} THEN 0..(count - 1)
    ELSE 0..(SetMin(Missing(map, count)) - 1)

Cache_height(self) == self.invalid_before + len(self.lines) + self.invalid_after
Cache_is_empty(self) == self.lines = NoLines

\* apply_copy with the new first line number added to the copied lines'
\* numbers as it is, in place of the difference.
apply_copy_valid_nodiff(h, nb_lines, first_line_num) ==
    LET nb_valid_lines == len(h.old_lines)
        count == Min(nb_lines, nb_valid_lines)
        left == nb_lines - count
        diff == IF first_line_num # NoLn THEN first_line_num ELSE 0
        copied == [i \in 0..(count - 1) |->
                     [h.old_lines[i] EXCEPT
                         !.line_num = IF @ = NoLn THEN NoLn ELSE @ + diff]]
        h2 == IF nb_valid_lines = 0 THEN h
              ELSE IF Missing(h.old_lines, count) # {}
              THEN [h EXCEPT !.old_lines = remove(@, Taken(h.old_lines, count)),
                             !.panicked = TRUE]
              ELSE [h EXCEPT !.old_lines = remove(@, 0..(count - 1)),
                             !.new_lines = extend(@, copied)] IN
    IF h2.panicked \/ left = 0 THEN h2
    ELSE IF h2.old_invalid_after >= left
    THEN [h2 EXCEPT !.old_invalid_after = @ - left, !.new_invalid_after = @ + left]
    ELSE [h2 EXCEPT !.panicked = TRUE]

\* apply_copy, STEP 2 and STEP 3, with nb_lines what STEP 1 left to copy.
apply_copy_valid(h, nb_lines, first_line_num) ==
    LET nb_valid_lines == len(h.old_lines)
        count == Min(nb_lines, nb_valid_lines)
        left == nb_lines - count
        nums == {h.old_lines[k].line_num : k \in DOMAIN h.old_lines} \ {NoLn}
        diff == IF first_line_num # NoLn
                THEN first_line_num - (IF nums = {} THEN 0 ELSE SetMin(nums))
                ELSE 0
        copied == [i \in 0..(count - 1) |->
                     [h.old_lines[i] EXCEPT
                         !.line_num = IF @ = NoLn THEN NoLn ELSE @ + diff]]
        h2 == IF nb_valid_lines = 0 THEN h
              ELSE IF Missing(h.old_lines, count) # {}
              THEN [h EXCEPT !.old_lines = remove(@, Taken(h.old_lines, count)),
                             !.panicked = TRUE]
              ELSE [h EXCEPT !.old_lines = remove(@, 0..(count - 1)),
                             !.new_lines = extend(@, copied)] IN
    IF h2.panicked \/ left = 0 THEN h2
    ELSE IF h2.old_invalid_after >= left
    THEN [h2 EXCEPT !.old_invalid_after = @ - left, !.new_invalid_after = @ + left]
    ELSE [h2 EXCEPT !.panicked = TRUE]

\* UpdateHelper::apply_copy.  STEP 1 moves the invalid lines that precede the
\* valid ones; its second case is entered when old_invalid_after > 0.
apply_copy(h, nb_lines, first_line_num) ==
    IF h.old_invalid_before >= nb_lines
    THEN [h EXCEPT !.old_invalid_before = @ - nb_lines,
                   !.new_invalid_before = @ + nb_lines]
    ELSE IF h.old_invalid_after > 0
    THEN apply_copy_valid([h EXCEPT !.new_invalid_before = @ + h.old_invalid_before,
                                    !.old_invalid_before = 0],
                          nb_lines - h.old_invalid_before, first_line_num)
    ELSE apply_copy_valid(h, nb_lines, first_line_num)

\* UpdateHelper::apply_skip.
apply_skip(h, nb_lines) ==
    IF h.old_invalid_before > nb_lines
    THEN [h EXCEPT !.old_invalid_before = @ - nb_lines]
    ELSE LET n1 == nb_lines - h.old_invalid_before
             h1 == [h EXCEPT !.old_invalid_before = 0]
             nb_valid_lines == len(h.old_lines) IN
         IF n1 < nb_valid_lines
         THEN [h1 EXCEPT !.old_lines = remove(@, 0..(n1 - 1))]
         ELSE LET n2 == n1 - nb_valid_lines
                  h2 == [h1 EXCEPT !.old_lines = NoLines] IN
              IF h2.old_invalid_after >= n2
              THEN [h2 EXCEPT !.old_invalid_after = @ - n2]
              ELSE [h2 EXCEPT !.panicked = TRUE]

\* UpdateHelper::apply_invalidate.
apply_invalidate(h, nb_lines) ==
    IF h.new_lines = NoLines
    THEN [h EXCEPT !.new_invalid_before = @ + nb_lines]
    ELSE [h EXCEPT !.new_invalid_after = @ + nb_lines]

\* trim_new_line: one trailing newline is popped when the text ends in one.
trim_new_line(line) == [line EXCEPT !.nl = IF @ > 0 THEN @ - 1 ELSE 0]

\* UpdateHelper::apply_insert: the lines go under the keys that follow the
\* largest key of new_lines.
apply_insert(h, lines) ==
    LET last_line == IF h.new_lines = NoLines THEN 0 - 1 ELSE SetMax(DOMAIN h.new_lines)
        entries == [k \in (last_line + 1)..(last_line + Len(lines)) |->
                       trim_new_line(lines[k - last_line])] IN
    [h EXCEPT !.new_lines = extend(@, entries)]

\* UpdateHelper::apply_update: the entries 0..nb_lines-1 of old_lines zipped
\* with the supplied lines.  zip takes the entry out of old_lines before it
\* finds that the supplied lines have ended.
apply_update(h, nb_lines, lines) ==
    IF nb_lines > len(h.old_lines) THEN [h EXCEPT !.panicked = TRUE]
    ELSE LET pairs == Min(nb_lines, Len(lines))
             count == Min(nb_lines, Len(lines) + 1)
             updated == [i \in 0..(pairs - 1) |->
                            [h.old_lines[i] EXCEPT !.cursor = lines[i + 1].cursor]] IN
         IF Missing(h.old_lines, count) # {}
         THEN [h EXCEPT !.old_lines = remove(@, Taken(h.old_lines, count)),
                        !.panicked = TRUE]
         ELSE [h EXCEPT !.old_lines = remove(@, 0..(count - 1)),
                        !.new_lines = extend(@, updated)]

apply_op(h, op) ==
    CASE op.op = "copy" -> apply_copy(h, op.n, op.line_num)
      [] op.op = "skip" -> apply_skip(h, op.n)
      [] op.op = "invalidate" -> apply_invalidate(h, op.n)
      [] op.op = "ins" -> apply_insert(h, op.lines)
      [] op.op = "update" -> apply_update(h, op.n, op.lines)

\* The loop of UpdateHelper::update; a panic ends it.
RECURSIVE helper_loop(_, _)
helper_loop(h, ops) ==
    IF ops = <<>> \/ h.panicked THEN h ELSE helper_loop(apply_op(h, Head(ops)), Tail(ops))

\* LineCache::update with UpdateHelper::update.  The helper works on the
\* fields of the cache through its &mut references; the three assignments
\* that end UpdateHelper::update put the new contents there.  After a panic
\* the cache is left as the helper had it.
Cache_update(self, ops) ==
    LET h == helper_loop([old_lines |-> self.lines,
                          old_invalid_before |-> self.invalid_before,
                          old_invalid_after |-> self.invalid_after,
                          new_lines |-> NoLines,
                          new_invalid_before |-> 0,
                          new_invalid_after |-> 0,
                          panicked |-> FALSE], ops) IN
    IF h.panicked
    THEN [panicked |-> TRUE,
          cache |-> [invalid_before |-> h.old_invalid_before, lines |-> h.old_lines,
                     invalid_after |-> h.old_invalid_after]]
    ELSE [panicked |-> FALSE,
          cache |-> [invalid_before |-> h.new_invalid_before, lines |-> h.new_lines,
                     invalid_after |-> h.new_invalid_after]]

\* ------------------------------------------------ the update of a view
SeqsUpTo(S, m) == UNION {[1..j -> S] : j \in 1..m}

\* The Operations of a peer.  Insert and Update come with as many lines as
\* their n says; the lines of one Insert are alike; the lines of an Update
\* carry a cursor.
NewFirstLineNum == MaxLines + 1
UpdateLines == {Line(0, 0, NoLn, 1)}
Operations ==
    {Copy(n, ln) : n \in 1..MaxN, ln \in {NoLn, NewFirstLineNum}}
        \cup {Skip(n) : n \in 1..MaxN}
        \cup {Invalidate(n) : n \in 1..MaxN}
        \cup {Insert([i \in 1..n |-> line]) : n \in 1..MaxN, line \in InsertLines}
        \cup {Update(ls) : ls \in SeqsUpTo(UpdateLines, MaxN)}

\* The two line caches with the same contents: `before` unknown lines, the
\* materialized lines L1..Lk, `after` unknown lines.
ApiCacheOf(c) ==
    [n_before |-> c.before, lines |-> [i \in 1..c.k |-> L(i)], n_after |-> c.after]
CacheOf(c) ==
    [invalid_before |-> c.before, lines |-> [i \in 0..(c.k - 1) |-> L(i + 1)],
     invalid_after |-> c.after]

\* A view whose window holds some lines; an update notification is about to
\* arrive.
LineCacheInit ==
    /\ EndpointInit
    /\ NoRender
    /\ old_cache \in [before : 0..MaxBefore, k : 0..MaxLines, after : 0..MaxBefore]
    /\ api_cache = ApiCacheOf(old_cache)
    /\ cache = CacheOf(old_cache)
    /\ operations = <<>>
    /\ api_pc = "receiving" /\ cache_pc = "receiving"

\* The next Operation of the update notification is deserialized.
ReceiveOperation ==
    /\ api_pc = "receiving" /\ cache_pc = "receiving"
    /\ Len(operations) < MaxOps
    /\ \E op \in Operations : operations' = Append(operations, op)
    /\ UNCHANGED <<old_cache, api_cache, cache, api_pc, cache_pc, viewVars>>
    /\ UNCHANGED <<status, dropped, pc, shutting_down, request_id, requests_rx,
                   notifications_rx, clientsAlive, pending_requests, pending_notifications,
                   respState, ackState, buffer, wire, handlers, notifTasks,
                   pending_responses, events, msg, taken, shutdown_rx, inboundVars>>

\* The view hands the update to its line cache: LineCache::update of
\* api/line_cache.rs, and LineCache::update of cache.rs, which can panic.
LineCacheUpdate ==
    /\ api_pc = "receiving" /\ cache_pc = "receiving"
    /\ operations # <<>>
    /\ LET r == LineCache_update(api_cache, operations) IN
        /\ api_cache' = r.cache
        /\ api_pc' = IF r.panicked THEN "panicked" ELSE "updated"
    /\ LET r == Cache_update(cache, operations) IN
        /\ cache' = r.cache
        /\ cache_pc' = IF r.panicked THEN "panicked" ELSE "updated"
    /\ UNCHANGED <<old_cache, operations, viewVars>>
    /\ UNCHANGED <<status, dropped, pc, shutting_down, request_id, requests_rx,
                   notifications_rx, clientsAlive, pending_requests, pending_notifications,
                   respState, ackState, buffer, wire, handlers, notifTasks,
                   pending_responses, events, msg, taken, shutdown_rx, inboundVars>>

LineCacheNext == ReceiveOperation \/ LineCacheUpdate

LineCacheSpec == LineCacheInit /\ [][LineCacheNext]_vars

\* ------------------------------------------------------ LineCache claims
RECURSIVE SumN(_, _)
SumN(ops, kinds) ==
    IF ops = <<>> THEN 0
    ELSE (IF Head(ops).op \in kinds THEN Head(ops).n ELSE 0) + SumN(Tail(ops), kinds)

\* The height the peer declares by an update, and the lines of the old cache
\* its Operations consume.
Declared(ops) == SumN(ops, {"copy", "ins", "invalidate", "update"})
Consumed(ops) == SumN(ops, {"copy", "skip", "update"})
OldHeight == old_cache.before + old_cache.k + old_cache.after
UpdateReturned ==
    api_pc \in {"updated", "panicked"} /\ cache_pc \in {"updated", "panicked"}

\* The read cursor over the old cache when Operation i is applied.
CursorAt(ops, i) == Consumed(SubSeq(ops, 1, i - 1))

\* An update computed against the old cache: its Copy, Skip and Update
\* operations consume no more lines than the old cache has, and every Update
\* lies in the materialized region.
InSync(ops) ==
    /\ Consumed(ops) <= OldHeight
    /\ \A i \in 1..Len(ops) :
          ops[i].op = "update"
          => /\ old_cache.before <= CursorAt(ops, i)
             /\ CursorAt(ops, i) + ops[i].n <= old_cache.before + old_cache.k

\* C21: after update() with Operations computed against the old cache,
\* before + |lines| + after is the height the update declared: the sum of n
\* over its Copy, Insert, Invalidate and Update operations.
C21_HeightIsDeclared ==
    (UpdateReturned /\ InSync(operations))
    => /\ LineCache_height(api_cache) = Declared(operations)
       /\ api_pc = "updated" /\ cache_pc = "updated"
       /\ Cache_height(cache) = Declared(operations)

\* C22: for an update computed against the old cache, the height of the new
\* cache is the sum of n over all its Operations.  Stated for the updates
\* without Skip, whose n are lines of the old cache that are left out.
AllKinds == {"copy", "skip", "invalidate", "update", "ins"}
C22_HeightConserved ==
    (/\ UpdateReturned /\ InSync(operations)
     /\ \A i \in 1..Len(operations) : operations[i].op # "skip")
    => /\ api_pc = "updated" /\ cache_pc = "updated"
       /\ LineCache_height(api_cache) = SumN(operations, AllKinds)
       /\ Cache_height(cache) = SumN(operations, AllKinds)

\* The lines an update of Copy, Skip and Insert operations asks for, with the
\* read cursor at old_ix over the materialized lines `lines`: for each Copy(n)
\* the n lines at the cursor, for each Insert its supplied lines.
RECURSIVE Concatenation(_, _, _)
Concatenation(lines, old_ix, ops) ==
    IF ops = <<>> THEN <<>>
    ELSE LET op == Head(ops) IN
         CASE op.op = "copy" ->
                  SubSeq(lines, old_ix + 1, old_ix + op.n)
                      \o Concatenation(lines, old_ix + op.n, Tail(ops))
           [] op.op = "skip" -> Concatenation(lines, old_ix + op.n, Tail(ops))
           [] op.op = "ins" -> op.lines \o Concatenation(lines, old_ix, Tail(ops))
           [] OTHER -> Concatenation(lines, old_ix, Tail(ops))

\* The texts of a sequence of lines, and the lines of the HashMap of cache.rs
\* in the order of their keys, which are 0..len-1 when no line is missing.
Texts(lines) == [i \in 1..Len(lines) |-> lines[i].text]
InKeyOrder(map) ==
    IF DOMAIN map = 0..(len(map) - 1)
    THEN [i \in 1..len(map) |-> map[i - 1]]
    ELSE <<None>>

\* The worked example: [Copy(1), Insert(2, [N2, N3]), Skip(2), Copy(2)] on
\* the lines L1..L5.
ExampleOld == [before |-> 0, k |-> 5, after |-> 0]
N(i) == Line(10 + i, 0, NoLn, 0)
ExampleOps == <<Copy(1, NoLn), Insert(<<N(2), N(3)>>), Skip(2), Copy(2, NoLn)>>
ExampleNew == <<L(1), N(2), N(3), L(4), L(5)>>
C23_Example ==
    /\ LineCache_update(ApiCacheOf(ExampleOld), ExampleOps).cache.lines = ExampleNew
    /\ ~Cache_update(CacheOf(ExampleOld), ExampleOps).panicked
    /\ InKeyOrder(Cache_update(CacheOf(ExampleOld), ExampleOps).cache.lines) = ExampleNew

\* C23: on a cache of the materialized lines L1..Lk only, an update of Copy,
\* Skip and Insert operations that stay within k leaves as lines the copied
\* and the inserted lines in the order of the operations; so for the worked
\* example.
C23_CopiedAndInsertedInOrder ==
    (/\ UpdateReturned
     /\ old_cache.before = 0 /\ old_cache.after = 0
     /\ \A i \in 1..Len(operations) : operations[i].op \in {"copy", "skip", "ins"}
     /\ Consumed(operations) <= old_cache.k)
    => LET expected == Texts(Concatenation(ApiCacheOf(old_cache).lines, 0, operations)) IN
       /\ Texts(api_cache.lines) = expected
       /\ api_pc = "updated" /\ cache_pc = "updated"
       /\ Texts(InKeyOrder(cache.lines)) = expected
       /\ C23_Example

\* Operation i asks for more lines than remain in the region it draws from:
\* a Copy for more than the old cache has from the read cursor on, an Update
\* inside the materialized region for more than the materialized lines from
\* the cursor on.
Overruns(ops, i) ==
    \/ ops[i].op = "copy" /\ CursorAt(ops, i) + ops[i].n > OldHeight
    \/ /\ ops[i].op = "update"
       /\ old_cache.before <= CursorAt(ops, i)
       /\ CursorAt(ops, i) + ops[i].n > old_cache.before + old_cache.k

\* C24: an update with a Copy or Update operation that overruns its region
\* makes update() fail; it does not return with a new cache.
C24_OverrunFails ==
    (UpdateReturned /\ \E i \in 1..Len(operations) : Overruns(operations, i))
    => api_pc = "panicked" /\ cache_pc = "panicked"

\* C25: the cache holds either the complete contents from before the update
\* or the complete new contents: when update() has failed part-way through
\* the Operations, the contents are those from before the update.
C25_UpdateIsAtomic ==
    /\ cache_pc = "panicked" => cache = CacheOf(old_cache)
    /\ cache_pc = "updated" => cache = Cache_update(CacheOf(old_cache), operations).cache

\* The text is the empty string.
EmptyText(line) == line # None /\ line.text = 0 /\ line.nl = 0

\* C26: is_empty() is true exactly when the height is 1 and that one line is
\* materialized with the empty string as its text; a cache as created, with
\* no line, is not empty.
C26_EmptyIsOneEmptyLine ==
    /\ LineCache_is_empty(api_cache)
          <=> (/\ LineCache_height(api_cache) = 1
               /\ Len(api_cache.lines) = 1 /\ EmptyText(api_cache.lines[1]))
    /\ Cache_is_empty(cache)
          <=> (/\ Cache_height(cache) = 1
               /\ len(cache.lines) = 1
               /\ \A k \in DOMAIN cache.lines : EmptyText(cache.lines[k]))
    /\ ~LineCache_is_empty(LineCache_new)
    /\ ~Cache_is_empty(LineCache_default)

\* What Copy(n) with the read cursor at ix is to give to the new contents
\* nw = (before, lines, after) from the old cache c of lines L1..Lk: the share
\* of n in the unknown lines before the window goes to the unknown count of
\* nw (before while nw has no line, after otherwise), then the materialized
\* lines under the cursor are appended, then the rest is drawn from the
\* unknown lines after the window.
Max(a, b) == IF a > b THEN a ELSE b
CopyAcross(c, nw, ix, n) ==
    LET unknown == Max(0, Min(n, c.before - ix))
        valid == Max(0, Min(n - unknown, c.before + c.k - (ix + unknown)))
        first == ix + unknown - c.before
        rest == n - unknown - valid
        nw1 == IF nw.lines = <<>> THEN [nw EXCEPT !.before = @ + unknown]
               ELSE [nw EXCEPT !.after = @ + unknown]
        nw2 == [nw1 EXCEPT !.lines = @ \o [i \in 1..valid |-> L(first + i).text]] IN
    IF nw2.lines = <<>> THEN [nw2 EXCEPT !.before = @ + rest]
    ELSE [nw2 EXCEPT !.after = @ + rest]

\* The new contents after the Copy operations of ops, which follow an Insert,
\* an Invalidate or nothing.
RECURSIVE CopiesAcross(_, _, _, _)
CopiesAcross(c, nw, ix, ops) ==
    IF ops = <<>> THEN nw
    ELSE LET op == Head(ops) IN
         CASE op.op = "copy" ->
                  CopiesAcross(c, CopyAcross(c, nw, ix, op.n), ix + op.n, Tail(ops))
           [] op.op = "ins" ->
                  CopiesAcross(c, [nw EXCEPT !.lines = @ \o Texts(op.lines)], ix, Tail(ops))
           [] op.op = "invalidate" ->
                  CopiesAcross(c, [nw EXCEPT !.before = @ + op.n], ix, Tail(ops))

\* An update with a Copy that starts in the unknown lines before the window
\* and extends past them; before it comes at most an Insert or an Invalidate,
\* after it only Copy operations.
CopySpansRegions(ops) ==
    /\ ops # <<>> /\ InSync(ops)
    /\ ops[1].op \in {"ins", "invalidate", "copy"}
    /\ \A i \in 2..Len(ops) : ops[i].op = "copy"
    /\ \E i \in 1..Len(ops) :
          /\ ops[i].op = "copy"
          /\ CursorAt(ops, i) < old_cache.before
          /\ CursorAt(ops, i) + ops[i].n > old_cache.before

\* The contents of a cache as the unknown lines before, the texts of the
\* materialized lines and the unknown lines after; a cache without a
\* materialized line has one run of unknown lines, however it is counted.
Contents(before, texts, after) ==
    IF texts = <<>> THEN <<before + after, <<>>, 0>> ELSE <<before, texts, after>>

\* C30: a Copy that starts in the unknown lines before the window and extends
\* past them gives the new cache its share of unknown lines, then the
\* materialized lines in their order, then the rest from the unknown lines
\* after the window, and moves the read cursor by n: whatever the split.
C30_CopyAcrossRegions ==
    (UpdateReturned /\ CopySpansRegions(operations))
    => LET nw == CopiesAcross(old_cache, [before |-> 0, lines |-> <<>>, after |-> 0],
                              0, operations) IN
       /\ api_pc = "updated" /\ cache_pc = "updated"
       /\ Contents(api_cache.n_before, Texts(api_cache.lines), api_cache.n_after)
             = Contents(nw.before, nw.lines, nw.after)
       /\ Contents(cache.invalid_before, Texts(InKeyOrder(cache.lines)), cache.invalid_after)
             = Contents(nw.before, nw.lines, nw.after)

\* ==================================================================
\* The codec on its own: Codec::encode and Codec::decode over one buffer
\* ==================================================================
MaxFrames == 3     \* values and newlines put into the buffer

\* Codec::encode(msg, buf): buf.extend_from_slice(&msg.to_vec()); what it
\* appends to the buffer.
encode(m) == <<to_vec(m)>>

\* The buffer after the messages ms were encoded into it one after the other.
RECURSIVE Encoded(_)
Encoded(ms) == IF ms = <<>> THEN <<>> ELSE encode(Head(ms)) \o Encoded(Tail(ms))

\* What a writer can put into the buffer at once: a JSON value or text that
\* is not JSON, or a newline.
CodecFrames == PeerFrames \cup {Newline}

\* Bytes of a writer arrive in the buffer.
CodecRead ==
    /\ Len(written) < MaxFrames
    /\ \E frame \in CodecFrames :
        /\ src' = Append(src, frame)
        /\ written' = Append(written, frame)
    /\ decode_res' = "-"
    /\ UNCHANGED <<lcVars, shutdown_rx,
                   status, dropped, pc, shutting_down, request_id, requests_rx,
                   notifications_rx, clientsAlive, pending_requests, pending_notifications,
                   respState, ackState, buffer, wire, handlers, notifTasks,
                   pending_responses, events, msg, taken, dispatched>>

\* Codec::encode of a Message into the buffer; wire keeps the Messages encoded.
CodecEncode ==
    /\ Len(written) < MaxFrames
    /\ \E m \in PeerMessages :
        /\ src' = src \o encode(m)
        /\ written' = written \o encode(m)
        /\ wire' = Append(wire, m)
    /\ decode_res' = "-"
    /\ UNCHANGED <<lcVars, shutdown_rx,
                   status, dropped, pc, shutting_down, request_id, requests_rx,
                   notifications_rx, clientsAlive, pending_requests, pending_notifications,
                   respState, ackState, buffer, handlers, notifTasks,
                   pending_responses, events, msg, taken, dispatched>>

\* Codec::decode(src), called while there is something it has not looked at.
CodecDecode ==
    /\ decode_res \in {"-", "Some"}
    /\ LET d == decode(src) IN
        /\ src' = d.src
        /\ decode_res' = d.res
        /\ msg' = d.msg
        /\ dispatched' = IF d.res = "Some" THEN Append(dispatched, d.msg) ELSE dispatched
    /\ UNCHANGED <<lcVars, shutdown_rx, written,
                   status, dropped, pc, shutting_down, request_id, requests_rx,
                   notifications_rx, clientsAlive, pending_requests, pending_notifications,
                   respState, ackState, buffer, wire, handlers, notifTasks,
                   pending_responses, events, taken>>

CodecNext == CodecRead \/ CodecEncode \/ CodecDecode

CodecSpec == Init /\ [][CodecNext]_vars

\* C27: the Message that decode gave for a well-formed frame, encoded and
\* decoded again, is the same Message.
C27_RoundTrip ==
    decode_res = "Some" =>
        /\ decode(encode(msg)).res = "Some"
        /\ decode(encode(msg)).msg = msg

\* The same Message but for the payload of a Response.
SameFrame(a, b) ==
    /\ a.kind = b.kind
    /\ a.kind \in {"Request", "Response"} => a.id = b.id
    /\ a.kind \in {"Request", "Notification"} => a.method = b.method

\* C28: encode ends what it writes with one newline, and a buffer that holds
\* k encodings and nothing else is split by decode into k frames, in the order
\* of the encodings.
C28_EncodingsSplit ==
    (wire # <<>> /\ written = Encoded(wire))
    => /\ written[Len(written)] = Newline
       /\ decode_res = "None" =>
             /\ Len(dispatched) = Len(wire)
             /\ \A i \in 1..Len(wire) : SameFrame(dispatched[i], wire[i])

\* C29: decode on a buffer without a newline-terminated frame returns None and
\* leaves the buffer as it is; on a buffer with a well-formed frame and its
\* newline at the front it returns the Message of the frame and removes the
\* frame and nothing behind it.
C29_DecodeTakesOneFrame ==
    [][decode_res' # "-" =>
          /\ (\A i \in 1..Len(src) : src[i] # Newline)
                => decode_res' = "None" /\ src' = src
          /\ (Len(src) >= 2 /\ WellFormed(src[1]) /\ src[2] = Newline)
                => /\ decode_res' = "Some"
                   /\ msg' = decode(<<src[1]>>).msg
                   /\ src' = Tail2(src, 2)]_vars

\* ------------------------------------------------ Operations, one by one
\* An update of cache.rs that has returned, in which Operation i is the one
\* Copy and no Update carries lines of the old cache into the new one: the
\* lines of the old cache that are in the new one are those Operation i copied.
OneCopy(ops, i) ==
    /\ cache_pc = "updated"
    /\ i \in 1..Len(ops) /\ ops[i].op = "copy"
    /\ \A j \in 1..Len(ops) : j # i => ops[j].op \in {"invalidate", "ins", "skip"}

\* The lines of the old cache that are in the new one, by their text, and the
\* number of the first of them that has a number (0 if none has).
CopiedLines == {t \in 1..old_cache.k : \E key \in DOMAIN cache.lines : cache.lines[key].text = t}
FirstNumber(S) ==
    LET numbered == {t \in S : L(t).line_num # NoLn} IN
    IF numbered = {} THEN 0 ELSE L(SetMin(numbered)).line_num

UpdateFirst(ops) ==
    /\ old_cache.before = 0
    /\ Len(ops) \in {1, 2}
    /\ ops[1].op = "update" /\ ops[1].n <= old_cache.k
    /\ Len(ops) = 2 =>
          /\ ops[2].op = "copy" /\ ops[2].line_num = NoLn
          /\ ops[1].n + ops[2].n <= old_cache.k

\* The lines of the new cache after such an update: the first n lines of the
\* old cache with the cursor and styles of the supplied lines, then the lines
\* the Copy takes at the read cursor.
Updated(ops) ==
    [i \in 1..SumN(ops, {"update", "copy"}) |->
        IF i <= ops[1].n THEN [L(i) EXCEPT !.cursor = ops[1].lines[i].cursor] ELSE L(i)]

\* C32: Update(n, lines) carries the next n materialized lines of the old
\* cache into the new one with text and line number unchanged and the cursor
\* and styles of the supplied lines, and moves the read cursor by n.
C32_UpdateCarriesLines ==
    (UpdateReturned /\ UpdateFirst(operations))
    => /\ api_pc = "updated" /\ cache_pc = "updated"
       /\ api_cache.lines = Updated(operations)
       /\ InKeyOrder(cache.lines) = Updated(operations)

\* The new cache with n more unknown lines: before the window while it has no
\* line, after it otherwise.
ApiInvalidated(c, n) ==
    IF c.lines = <<>> THEN [c EXCEPT !.n_before = @ + n] ELSE [c EXCEPT !.n_after = @ + n]
CacheInvalidated(c, n) ==
    IF c.lines = NoLines THEN [c EXCEPT !.invalid_before = @ + n]
    ELSE [c EXCEPT !.invalid_after = @ + n]
Front(s) == SubSeq(s, 1, Len(s) - 1)
Last(s) == s[Len(s)]

\* C33: Invalidate(n) adds n to the unknown lines before the new window when
\* the new cache has no materialized line yet, to those after it otherwise,
\* and nothing else: an update that ends with Invalidate(n) gives the cache of
\* the update without it with n more unknown lines, and an update that begins
\* with it takes the same lines of the old cache as the update without it.
C33_InvalidateOnlyCounts ==
    (UpdateReturned /\ api_pc = "updated" /\ cache_pc = "updated")
    => /\ Last(operations).op = "invalidate" =>
             /\ api_cache = ApiInvalidated(LineCache_update(ApiCacheOf(old_cache),
                                                            Front(operations)).cache,
                                           Last(operations).n)
             /\ cache = CacheInvalidated(Cache_update(CacheOf(old_cache),
                                                      Front(operations)).cache,
                                         Last(operations).n)
       /\ (Len(operations) > 1 /\ operations[1].op = "invalidate") =>
             /\ api_cache.lines =
                   LineCache_update(ApiCacheOf(old_cache), Tail(operations)).cache.lines
             /\ cache.lines = Cache_update(CacheOf(old_cache), Tail(operations)).cache.lines

\* Invalidate(2) came after an Insert: the new caches have the inserted lines
\* and two unknown lines after them.
C33_InvalidatedBothSides ==
    /\ api_pc = "updated" /\ cache_pc = "updated"
    /\ Len(operations) = 2
    /\ operations[1].op = "ins" /\ operations[2] = Invalidate(2)
    /\ api_cache.n_before = 0 /\ api_cache.n_after = 2 /\ api_cache.lines # <<>>
    /\ cache.invalid_before = 0 /\ cache.invalid_after = 2 /\ cache.lines # NoLines

\* The lines of an Insert as they are to be stored: a text that ends in
\* newlines has one less, the others are as supplied.
Trimmed(lines) == [i \in 1..Len(lines) |-> [lines[i] EXCEPT !.nl = IF @ > 0 THEN @ - 1 ELSE 0]]

\* The lines of the old cache among lines, in their order.
IsOldLine(line) == line.text \in 1..old_cache.k
OldLinesIn(lines) == SelectSeq(lines, IsOldLine)

\* C34: Insert stores each line with one trailing newline stripped: a text
\* ending in one newline loses it, a text ending in two keeps one, a text
\* without one is stored as it is; and Insert does not move the read cursor:
\* a Copy after it takes the lines it takes without the Insert.
C34_InsertTrimsOneNewline ==
    (UpdateReturned /\ operations[1].op = "ins")
    => /\ Len(operations) = 1 =>
             /\ api_pc = "updated" /\ cache_pc = "updated"
             /\ api_cache.lines = Trimmed(operations[1].lines)
             /\ InKeyOrder(cache.lines) = Trimmed(operations[1].lines)
       /\ (Len(operations) = 2 /\ operations[2].op = "copy" /\ InSync(operations)) =>
             /\ OldLinesIn(api_cache.lines) =
                   LineCache_update(ApiCacheOf(old_cache), Tail(operations)).cache.lines
             /\ OldLinesIn(InKeyOrder(cache.lines)) =
                   InKeyOrder(Cache_update(CacheOf(old_cache), Tail(operations)).cache.lines)

\* The materialized lines of the old cache that Operation i, a Copy, takes:
\* those of the n lines from the read cursor on that lie in the window.
Materialized(ops, i) ==
    Cardinality({x \in CursorAt(ops, i)..(CursorAt(ops, i) + ops[i].n - 1) :
                    x >= old_cache.before /\ x < old_cache.before + old_cache.k})
RECURSIVE LinesGained(_, _)
LinesGained(ops, i) ==
    IF i = 0 THEN 0
    ELSE LinesGained(ops, i - 1)
            + (CASE ops[i].op = "copy" -> Materialized(ops, i)
                 [] ops[i].op = "ins" -> ops[i].n
                 [] OTHER -> 0)

\* C35: the counts of unknown lines are never expanded into entries of lines:
\* after an update of Copy, Skip, Insert and Invalidate that stays within the
\* old cache, lines has the materialized lines the Copies took and the lines
\* the Inserts supplied, and no other entry.
C35_UnknownNeverExpanded ==
    (api_pc = "updated" /\ InSync(operations)
       /\ \A i \in 1..Len(operations) : operations[i].op # "update")
    => /\ Len(api_cache.lines) = LinesGained(operations, Len(operations))
       /\ \A i \in 1..Len(api_cache.lines) : api_cache.lines[i] # None

\* ------------------------------------------------ the Endpoint, once more
\* An Endpoint in the middle of its life, between two turns: the application
\* has sent a notification, which the Transport has staged and whose flush has
\* not completed.
ServingInit ==
    /\ status = "running" /\ dropped = FALSE /\ pc = "read"
    /\ shutting_down = FALSE
    /\ request_id = 0
    /\ requests_rx = <<>> /\ notifications_rx = <<>>
    /\ clientsAlive = TRUE
    /\ pending_requests = NoEntries
    /\ pending_notifications = <<1>>
    /\ respState = [f \in Futures |-> Unissued]
    /\ ackState = [a \in Acks |-> IF a = 1 THEN "waiting" ELSE "unissued"]
    /\ buffer = <<Notification("-", 1)>> /\ wire = <<>>
    /\ handlers = [i \in InIds |-> "none"]
    /\ notifTasks = 0
    /\ pending_responses = <<>>
    /\ events = 0
    /\ msg = NoMessage
    /\ taken = <<>>
    /\ shutdown_rx = 0
    /\ src = <<>> /\ written = <<>> /\ dispatched = <<>>
    /\ decode_res = "-"
    /\ NoView

ServingSpec == ServingInit /\ [][Next]_vars

\* C36: while the handler of a Request has not completed, only its Response
\* is withheld: the Responses handed to the Transport are those of the
\* handlers that completed and whose results send_responses took, in the order
\* of their completion, whichever Request came first.
C36_StalledWithholdsOnlyItsOwn ==
    \A id \in InIds :
        (status = "running" /\ handlers[id] \in Methods)
        => /\ OutOfKind("Response") = [k \in 1..Len(taken) |-> ResponseOf(taken[k])]
           /\ \A n \in 1..Len(Out) : ~(Out[n].kind = "Response" /\ Out[n].id = id)

\* C37: when the Endpoint future has completed because the client side shut
\* down, every request and notification submitted before has been handed to
\* the Transport, the flush of them has completed, and the Acks of the
\* notifications are resolved, none cancelled.
C37_ShutdownFlushes ==
    (status = "done" /\ shutting_down)
    => /\ requests_rx = <<>> /\ notifications_rx = <<>>
       /\ buffer = <<>>
       /\ pending_notifications = <<>>
       /\ \A a \in Acks : ackState[a] # "canceled"

\* ------------------------------------------------ View::render_lines
\* A line is shown through a ViewPort scrolled horizontally. The offset of
\* a StyleDef counts from the end of the StyleDef before it, that of the first
\* from the start of the line.
MaxSpan == 2
MaxStyles == 2

LineLength == MaxStyles * 2 * MaxSpan
MaxScroll == MaxSpan + 1

StyleDef(offset, length, style_id) ==
    [offset |-> offset, length |-> length, style_id |-> style_id]

\* The text of the line: every character is named by its column.
LineText == [k \in 1..LineLength |-> k - 1]

\* The lines of at most MaxStyles spans; the spans are numbered in order.
StyledLines ==
    UNION {{[i \in 1..n |-> StyleDef(o[i], l[i], i)] :
                o \in [1..n -> 0..MaxSpan], l \in [1..n -> 1..MaxSpan]} :
           n \in 1..MaxStyles}

\* The loop of render_line_styles, from the i-th StyleDef on.
RECURSIVE render_styles_loop(_, _, _, _, _)
render_styles_loop(offset, styles, i, current_index, new_styles) ==
    IF i > Len(styles) THEN new_styles
    ELSE
        LET style == styles[i]
            length == style.length
            style_offset == style.offset
            style_id == style.style_id
            next_index == current_index + style_offset + length
        IN  IF /\ current_index + style_offset < offset
               /\ current_index + style_offset + length < offset
            THEN render_styles_loop(offset, styles, i + 1, current_index, new_styles)
            ELSE IF current_index + style_offset >= offset /\ offset > current_index
            THEN render_styles_loop(offset, styles, i + 1, next_index,
                     Append(new_styles,
                            StyleDef(current_index + style_offset - offset, length,
                                     style_id)))
            ELSE IF /\ current_index + style_offset + length > offset
                    /\ offset > current_index + style_offset
            THEN render_styles_loop(offset, styles, i + 1, next_index,
                     Append(new_styles,
                            StyleDef(0,
                                     (((current_index + style_offset + length)
                                        - current_index) + style_offset) - offset,
                                     style_id)))
            ELSE render_styles_loop(offset, styles, i + 1, next_index,
                                    Append(new_styles, style))

render_line_styles(offset, styles) == render_styles_loop(offset, styles, 1, 0, <<>>)

\* The LineRef of View::render_lines for the line.
render_lines(horizontal_offset, styles) ==
    [text |-> SubSeq(LineText, horizontal_offset + 1, LineLength),
     styles |-> render_line_styles(horizontal_offset, styles)]

\* A view over one styled line, not scrolled.
RenderInit ==
    /\ EndpointInit
    /\ NoUpdate
    /\ viewport = 0
    /\ line_styles \in StyledLines
    /\ rendered = NotRendered

\* The front end scrolls the view horizontally.
SetHorizontalOffset ==
    /\ \E h \in 0..MaxScroll : viewport' = h
    /\ UNCHANGED <<line_styles, rendered>>
    /\ UNCHANGED <<status, dropped, pc, shutting_down, request_id, requests_rx,
                   notifications_rx, clientsAlive, pending_requests, pending_notifications,
                   respState, ackState, buffer, wire, handlers, notifTasks,
                   pending_responses, events, msg, taken, shutdown_rx, inboundVars,
                   old_cache, api_cache, cache, operations, api_pc, cache_pc>>

\* The front end draws the view.
RenderLines ==
    /\ rendered' = render_lines(viewport, line_styles)
    /\ UNCHANGED <<viewport, line_styles>>
    /\ UNCHANGED <<status, dropped, pc, shutting_down, request_id, requests_rx,
                   notifications_rx, clientsAlive, pending_requests, pending_notifications,
                   respState, ackState, buffer, wire, handlers, notifTasks,
                   pending_responses, events, msg, taken, shutdown_rx, inboundVars,
                   old_cache, api_cache, cache, operations, api_pc, cache_pc>>

RenderNext == SetHorizontalOffset \/ RenderLines

RenderSpec == RenderInit /\ [][RenderNext]_vars

\* The first span of the line, in columns: [SpanStart, SpanEnd).
SpanStart == line_styles[1].offset
SpanEnd == line_styles[1].offset + line_styles[1].length

\* The rendered StyleDefs that come from the first span of the line.
OfFirstSpan(r) == {k \in 1..Len(r.styles) : r.styles[k].style_id = 1}

\* C38: View::render_lines rewrites the style spans of a line relative to the
\* text cut at the horizontal offset h. Of the first span of the line: when
\* it ends left of h it is dropped; when it straddles h it is rendered first,
\* with offset 0 and the length of its part at or right of h; when it starts
\* at or right of h it is rendered first, with its offset reduced by h and its
\* length unchanged.
C38_SpansRelativeToCut ==
    [][rendered' # rendered
       => /\ rendered'.text = SubSeq(LineText, viewport + 1, LineLength)
          /\ SpanEnd < viewport => OfFirstSpan(rendered') = {}
          /\ (SpanStart < viewport /\ viewport < SpanEnd)
             => /\ rendered'.styles # <<>>
                /\ rendered'.styles[1] = StyleDef(0, SpanEnd - viewport, 1)
          /\ SpanStart >= viewport
             => /\ rendered'.styles # <<>>
                /\ rendered'.styles[1] =
                       StyleDef(SpanStart - viewport, line_styles[1].length, 1)]_vars

\* ------------------------------------------------ outbound, under backpressure
\* How often the Request or Notification of future h has been handed to the
\* Transport, and how often h waits in a channel of the Client.
HandedOver(kd, h) == Cardinality({k \in 1..Len(Out) : Out[k].kind = kd /\ Out[k].h = h})
Queued(rx, h) == Cardinality({k \in 1..Len(rx) : rx[k] = h})

\* The I/O under the Transport has failed.
IoFailed == status \in {SendError, UnwrapError, FlushError, "failed"}

\* C39: no request and no notification is lost under backpressure. As long as
\* the Endpoint exists and the I/O has not failed, every request and every
\* notification that was submitted either still waits in its channel or has
\* been handed to the Transport, exactly once.
C39_NothingLostUnderBackpressure ==
    (~dropped /\ ~IoFailed)
    => /\ \A f \in Futures :
            respState[f] # Unissued
            => Queued(requests_rx, f) + HandedOver("Request", f) = 1
       /\ \A a \in Acks :
            ackState[a] # "unissued"
            => Queued(notifications_rx, a) + HandedOver("Notification", a) = 1

\* ------------------------------------------------ outbound, across kinds
\* An Endpoint between two turns whose application has called notify once,
\* and nothing else: the notification waits in its channel.
NotifiedInit ==
    /\ status = "running" /\ dropped = FALSE /\ pc = "read"
    /\ shutting_down = FALSE
    /\ request_id = 0
    /\ requests_rx = <<>> /\ notifications_rx = <<1>>
    /\ clientsAlive = TRUE
    /\ pending_requests = NoEntries
    /\ pending_notifications = <<>>
    /\ respState = [f \in Futures |-> Unissued]
    /\ ackState = [a \in Acks |-> IF a = 1 THEN "waiting" ELSE "unissued"]
    /\ buffer = <<>> /\ wire = <<>>
    /\ handlers = [i \in InIds |-> "none"]
    /\ notifTasks = 0
    /\ pending_responses = <<>>
    /\ events = 0
    /\ msg = NoMessage
    /\ taken = <<>>
    /\ shutdown_rx = 0
    /\ src = <<>> /\ written = <<>> /\ dispatched = <<>>
    /\ decode_res = "-"
    /\ NoView

NotifiedSpec == NotifiedInit /\ [][Next]_vars

\* C40: outbound messages reach the Transport in the order of their
\* submission, also across kinds. Every request of this run is submitted after
\* the first notification, so a Request handed to the Transport comes after
\* that Notification.
C40_SubmissionOrderAcrossKinds ==
    \A k \in 1..Len(Out) :
        Out[k].kind = "Request"
        => \E j \in 1..(k - 1) : Out[j] = Notification("-", 1)

====
